---- MODULE Spec2Model ----
(***************************************************************************)
(* Bloc lead-assignment backend: the assignment engine                     *)
(* (app/services/assignment_engine.py), the webhook and reassign handlers  *)
(* (app/routers/webhook.py, app/routers/leads.py) and the caller CRUD      *)
(* handlers (app/routers/callers.py), over the six tables of               *)
(* app/models.py.                                                          *)
(*                                                                         *)
(* Identities.  Caller ids are uuid4 values; the model names them by the   *)
(* rank of str(id), so that the order of the integers is the order         *)
(* sorted(..., key=lambda c: str(c.id)) uses.  A lead id is the position   *)
(* of the lead in the leads table (leads are never deleted).               *)
(*                                                                         *)
(* Time.  now is the wall clock in ticks; Day(t) is the calendar date of   *)
(* tick t.  date.today() and datetime.utcnow() both read this clock (a     *)
(* single time zone).                                                      *)
(***************************************************************************)
EXTENDS Naturals, Integers, Sequences, FiniteSets, TLC

\* ------------------------------------------------------------------ bounds
MaxCallers == 2
MaxLimit == 1
MaxLeads == 2
MaxAssign == 2
TicksPerDay == 1
MaxNow == 1
MaxProcs == 2
RRAssign == 4
CapLimit == 2

\* ------------------------------------------------------------- input sets
CallerIds == 1..MaxCallers
NoCaller == 0
NoState == ""
States == {"MH"}
LeadStates == {NoState} \cup States
Phones == {"p1"}
SheetTimestamps == 1..MaxLeads
Ticks == 0..MaxNow
ACTIVE == "active"
PAUSED == "paused"
ASSIGNED == "assigned"
UNASSIGNED == "unassigned"
GlobalKey == "global"

VARIABLES
  callers,                \* table callers: id -> [daily_limit, status]
  caller_states,          \* table caller_states: set of <<caller_id, state>>
  leads,                  \* table leads: sequence of [phone, timestamp_from_sheet, state, unassigned]
  lead_assignments,       \* table lead_assignments, in insertion order
  rr_pointers,            \* table rr_pointers: key -> last_caller_id
  caller_daily_counters,  \* table caller_daily_counters: <<caller_id, date>> -> count
  now,                    \* the wall clock
  log,                    \* what assign_lead logged, one record per completed call
  returned,               \* <<phone, timestamp>> -> the lead ids the webhook answered with, in order
  txn,                    \* the open transaction of each concurrent webhook request
  response,               \* the HTTP response of the last request answered
  events,                 \* the events handed to connection_manager.broadcast_assignment
  active_connections      \* connection_manager.active_connections: the list of websockets

vars == <<callers, caller_states, leads, lead_assignments, rr_pointers,
          caller_daily_counters, now, log, returned, txn, response, events,
          active_connections>>

\* what lies outside the tables: the answer to the client, the events handed
\* to the broadcaster and the broadcaster's connections
observed == <<response, events, active_connections>>

\* ---------------------------------------------------------------- helpers
Day(t) == t \div TicksPerDay

Range(s) == {s[i] : i \in DOMAIN s}

\* every order in which a query without ORDER BY may return the rows of S
Orders(S) == {q \in [1..Cardinality(S) -> S] : \A i, j \in 1..Cardinality(S) : q[i] = q[j] => i = j}

\* CallerDailyCounter.count of (c, d); a missing row reads as 0
CounterOf(ctrs, c, d) == IF <<c, d>> \in DOMAIN ctrs THEN ctrs[<<c, d>>] ELSE 0

\* get_business_date(): date.today()
get_business_date(t) == Day(t)

\* ------------------------------------------------------- assignment engine
\* the status filter of the eligibility query left out
AllCallers == DOMAIN callers

\* _eligible_callers_for_state: the active callers joined to a CallerState row
\* of the state when that set is non-empty, else every active caller
ActiveCallers == {c \in DOMAIN callers : callers[c].status = ACTIVE}

StateCallers(state) == {c \in ActiveCallers : <<c, state>> \in caller_states}

\* the state callers kept only while one of them is under its cap
eligible_or_global(state) ==
  IF /\ state # NoState
     /\ \E c \in StateCallers(state) :
          \/ callers[c].daily_limit = 0
          \/ CounterOf(caller_daily_counters, c, get_business_date(now)) < callers[c].daily_limit
  THEN StateCallers(state)
  ELSE ActiveCallers

eligible_callers_for_state(state) ==
  IF state # NoState /\ StateCallers(state) # {}
  THEN StateCallers(state)
  ELSE ActiveCallers

\* daily_limit 0 read as a limit of zero leads
UnderCapZeroIsLimit(c, business_date) ==
  CounterOf(caller_daily_counters, c, business_date) < callers[c].daily_limit

\* the cap comparison with <= in place of <
UnderCapInclusive(c, business_date) ==
  \/ callers[c].daily_limit = 0
  \/ CounterOf(caller_daily_counters, c, business_date) <= callers[c].daily_limit

\* _apply_daily_cap_filter over the callers in query order
UnderCap(c, business_date) ==
  \/ callers[c].daily_limit = 0
  \/ CounterOf(caller_daily_counters, c, business_date) < callers[c].daily_limit

\* the cap filter returning its input
no_daily_cap_filter(cs, business_date) == cs

apply_daily_cap_filter(cs, business_date) ==
  LET Keep(c) == UnderCap(c, business_date) IN SelectSeq(cs, Keep)

\* sorted(eligible, key=lambda c: str(c.id)): insertion sort on the id rank
RECURSIVE Insert(_, _)
Insert(x, s) ==
  IF s = <<>> THEN <<x>>
  ELSE IF x <= Head(s) THEN <<x>> \o s
  ELSE <<Head(s)>> \o Insert(x, Tail(s))

RECURSIVE SortById(_)
SortById(s) == IF s = <<>> THEN <<>> ELSE Insert(Head(s), SortById(Tail(s)))

\* ids.index(x): the first position of x, 0 for ValueError
IndexOf(s, x) ==
  IF \E i \in DOMAIN s : s[i] = x
  THEN CHOOSE i \in DOMAIN s : s[i] = x /\ \A j \in 1..(i - 1) : s[j] # x
  ELSE 0

\* the pointer's caller kept while it is in the list
same_caller_again(last_caller_id, eligible) ==
  IF eligible = <<>> THEN NoCaller
  ELSE IF last_caller_id \in Range(eligible) THEN last_caller_id
  ELSE SortById(eligible)[1]

\* the rotation ignoring the pointer
first_caller(last_caller_id, eligible) ==
  IF eligible = <<>> THEN NoCaller ELSE SortById(eligible)[1]

\* _next_round_robin_caller: the caller chosen from the eligible list (NoCaller
\* for None), given the pointer's last_caller_id (NoCaller for a pointer just
\* created)
next_round_robin_caller(last_caller_id, eligible) ==
  LET ordered == SortById(eligible)
      idx == IndexOf(ordered, last_caller_id)
  IN IF eligible = <<>> THEN NoCaller
     ELSE IF last_caller_id = NoCaller THEN ordered[1]
     ELSE IF idx = 0 THEN ordered[1]
     ELSE ordered[(idx % Len(ordered)) + 1]

\* has_state_specific: lead.state and count(CallerState rows of that state)
has_state_specific(state) ==
  state # NoState /\ Cardinality({r \in caller_states : r[2] = state}) > 0

\* key = f"state:{lead.state}" if lead.state and has_state_specific else "global"
routing_key(state) == IF state # NoState /\ has_state_specific(state) THEN "state:" \o state ELSE GlobalKey

\* key.startswith("state:")
StartsWithState(key) == Len(key) >= 6 /\ SubSeq(key, 1, 6) = "state:"

\* the forced caller is checked for existence only
ForcedCallerMissing(forced) == forced # NoCaller /\ forced \notin DOMAIN callers

\* forced_caller_id given and: caller is None or caller.status != ACTIVE
ForcedCallerError(forced) ==
  forced # NoCaller /\ (forced \notin DOMAIN callers \/ callers[forced].status # ACTIVE)

\* assign_lead up to the point where it writes: who is chosen, through which
\* key and with which reason.  forced is NoCaller in automatic mode; override
\* is "" when no reason_override is passed; order is the eligibility query's
\* result in the order the database returned it.
assign_lead_result(lead_state, forced, override, business_date, order) ==
  IF forced # NoCaller
  THEN IF ForcedCallerError(forced)
       THEN [raised |-> TRUE, mode |-> "manual", chosen |-> NoCaller, key |-> "",
             reason |-> "", status |-> ""]
       ELSE [raised |-> FALSE, mode |-> "manual", chosen |-> forced, key |-> "",
             reason |-> IF override # "" THEN override ELSE "manual_reassign",
             status |-> ASSIGNED]
  ELSE LET eligible == apply_daily_cap_filter(order, business_date)
           key == routing_key(lead_state)
           last == IF key \in DOMAIN rr_pointers THEN rr_pointers[key] ELSE NoCaller
           chosen == next_round_robin_caller(last, eligible)
       IN IF eligible = <<>>
          THEN [raised |-> FALSE, mode |-> "auto", chosen |-> NoCaller, key |-> "",
                reason |-> "unassigned_cap_reached", status |-> UNASSIGNED]
          ELSE IF chosen = NoCaller
          THEN [raised |-> FALSE, mode |-> "auto", chosen |-> NoCaller, key |-> key,
                reason |-> "unassigned_no_eligible", status |-> UNASSIGNED]
          ELSE [raised |-> FALSE, mode |-> "auto",
                chosen |-> chosen, key |-> key,
                reason |-> IF override # "" THEN override
                           ELSE IF StartsWithState(key) THEN "state_round_robin"
                           ELSE "global_round_robin",
                status |-> ASSIGNED]

\* the "global" pointer moved by forced assignments too
PointerAfterAny(r) ==
  IF r.status = ASSIGNED
  THEN LET key == IF r.mode = "auto" THEN r.key ELSE GlobalKey IN
       [k \in DOMAIN rr_pointers \cup {key} |-> IF k = key THEN r.chosen ELSE rr_pointers[k]]
  ELSE rr_pointers

\* the pointer row created for key but never moved
PointerCreatedOnly(r) ==
  IF r.mode = "auto" /\ r.status = ASSIGNED
  THEN [k \in DOMAIN rr_pointers \cup {r.key} |->
          IF k \in DOMAIN rr_pointers THEN rr_pointers[k] ELSE NoCaller]
  ELSE rr_pointers

\* pointer.last_caller_id = chosen.id, on the pointer loaded or created for key
PointerAfter(r) ==
  IF r.mode = "auto" /\ r.status = ASSIGNED
  THEN [k \in DOMAIN rr_pointers \cup {r.key} |-> IF k = r.key THEN r.chosen ELSE rr_pointers[k]]
  ELSE rr_pointers

\* one counter row per caller, whatever the date
CounterAfterUndated(r, business_date) ==
  IF r.status = ASSIGNED
  THEN LET k == <<r.chosen, 0>> IN
       [x \in DOMAIN caller_daily_counters \cup {k} |->
          IF x = k THEN CounterOf(caller_daily_counters, r.chosen, 0) + 1
          ELSE caller_daily_counters[x]]
  ELSE caller_daily_counters

\* the counter bumped whatever the outcome
CounterAfterAlways(r, business_date) ==
  LET k == <<r.chosen, business_date>> IN
  [x \in DOMAIN caller_daily_counters \cup {k} |->
     IF x = k THEN CounterOf(caller_daily_counters, r.chosen, business_date) + 1
     ELSE caller_daily_counters[x]]

\* the counter bumped for automatic assignments only
CounterAfterAuto(r, business_date) ==
  IF r.status = ASSIGNED /\ r.mode = "auto"
  THEN LET k == <<r.chosen, business_date>> IN
       [x \in DOMAIN caller_daily_counters \cup {k} |->
          IF x = k THEN CounterOf(caller_daily_counters, r.chosen, business_date) + 1
          ELSE caller_daily_counters[x]]
  ELSE caller_daily_counters

\* the counter row of (chosen, business_date) loaded or created with count 0,
\* then counter.count += 1
CounterAfter(r, business_date) ==
  IF r.status = ASSIGNED
  THEN LET k == <<r.chosen, business_date>> IN
       [x \in DOMAIN caller_daily_counters \cup {k} |->
          IF x = k THEN CounterOf(caller_daily_counters, r.chosen, business_date) + 1
          ELSE caller_daily_counters[x]]
  ELSE caller_daily_counters

\* the row written without its caller
AssignmentRowAnonymous(lead_id, r, flushed_at) ==
  [lead_id |-> lead_id, caller_id |-> NoCaller, status |-> r.status,
   assignment_reason |-> r.reason, assigned_at |-> flushed_at]

\* the LeadAssignment row; assigned_at is datetime.utcnow() at the flush
AssignmentRow(lead_id, r, flushed_at) ==
  [lead_id |-> lead_id, caller_id |-> r.chosen, status |-> r.status,
   assignment_reason |-> r.reason, assigned_at |-> flushed_at]

\* the log lines of one request: the route (main.py log_requests) and what
\* assign_lead logged (mode, key, chosen caller, reason, business date)
LogRecord(handler, lead_id, r, business_date) ==
  [handler |-> handler, lead_id |-> lead_id, mode |-> r.mode, key |-> r.key,
   caller |-> r.chosen, status |-> r.status, reason |-> r.reason, date |-> business_date]

\* lead.unassigned following the latest outcome
AssignAndCommitResetting(handler, ls, lead_id, r, business_date, flushed_at) ==
  /\ leads' = [ls EXCEPT ![lead_id].unassigned = (r.status = UNASSIGNED)]
  /\ rr_pointers' = PointerAfter(r)
  /\ caller_daily_counters' = CounterAfter(r, business_date)
  /\ lead_assignments' = Append(lead_assignments, AssignmentRow(lead_id, r, flushed_at))
  /\ log' = Append(log, LogRecord(handler, lead_id, r, business_date))
  /\ now' = flushed_at

\* the lead's row rewritten in place when it has one
AssignAndCommitInPlace(handler, ls, lead_id, r, business_date, flushed_at) ==
  /\ leads' = IF r.status = UNASSIGNED THEN [ls EXCEPT ![lead_id].unassigned = TRUE] ELSE ls
  /\ rr_pointers' = PointerAfter(r)
  /\ caller_daily_counters' = CounterAfter(r, business_date)
  /\ lead_assignments' =
       IF \E i \in DOMAIN lead_assignments : lead_assignments[i].lead_id = lead_id
       THEN [i \in DOMAIN lead_assignments |->
               IF lead_assignments[i].lead_id = lead_id
               THEN AssignmentRow(lead_id, r, flushed_at) ELSE lead_assignments[i]]
       ELSE Append(lead_assignments, AssignmentRow(lead_id, r, flushed_at))
  /\ log' = Append(log, LogRecord(handler, lead_id, r, business_date))
  /\ now' = flushed_at

\* the assignment row written for a chosen caller only
AssignAndCommitChosen(handler, ls, lead_id, r, business_date, flushed_at) ==
  /\ leads' = IF r.status = UNASSIGNED THEN [ls EXCEPT ![lead_id].unassigned = TRUE] ELSE ls
  /\ rr_pointers' = PointerAfter(r)
  /\ caller_daily_counters' = CounterAfter(r, business_date)
  /\ lead_assignments' = IF r.status = UNASSIGNED THEN lead_assignments
                         ELSE Append(lead_assignments, AssignmentRow(lead_id, r, flushed_at))
  /\ log' = Append(log, LogRecord(handler, lead_id, r, business_date))
  /\ now' = flushed_at

\* assign_lead followed by the handler's db.commit(), on lead lead_id of the
\* leads table ls (the table as the handler has it before the call)
AssignAndCommit(handler, ls, lead_id, r, business_date, flushed_at) ==
  /\ leads' = IF r.status = UNASSIGNED THEN [ls EXCEPT ![lead_id].unassigned = TRUE] ELSE ls
  /\ rr_pointers' = PointerAfter(r)
  /\ caller_daily_counters' = CounterAfter(r, business_date)
  /\ lead_assignments' = Append(lead_assignments, AssignmentRow(lead_id, r, flushed_at))
  /\ log' = Append(log, LogRecord(handler, lead_id, r, business_date))
  /\ now' = flushed_at

\* the clock readings a handler entered at now can see later on
Later(bound) == {t \in now..(now + 1) : t <= bound}

\* ---------------------------------------------------------------- handlers
NoSecret == ""
Secrets == {NoSecret, "s1"}
Headers == {"absent", "s1", "bad"}

\* the secret never compared
secret_ignored(expected, x_webhook_secret) == TRUE

\* _verify_webhook_secret: TRUE when the request is let through
verify_webhook_secret(expected, x_webhook_secret) ==
  ~(expected # NoSecret /\ x_webhook_secret # expected)

LeadsWith(phone, ts) ==
  {i \in DOMAIN leads : leads[i].phone = phone /\ leads[i].timestamp_from_sheet = ts}

\* what the webhook has answered with for (phone, ts), one more answer added
ReturnedAfter(phone, ts, lead_id) ==
  [k \in DOMAIN returned \cup {<<phone, ts>>} |->
     IF k = <<phone, ts>>
     THEN Append(IF k \in DOMAIN returned THEN returned[k] ELSE <<>>, lead_id)
     ELSE returned[k]]

\* lead_webhook from the Lead insert on: the new row (isNew) or the row the
\* lookup after IntegrityError finds, then assign_lead, commit and the answer
webhook_assign(isNew, phone, ts, state, maxNow) ==
  LET ls == IF isNew
            THEN Append(leads, [phone |-> phone, timestamp_from_sheet |-> ts,
                                state |-> state, unassigned |-> FALSE])
            ELSE leads
      lead_id == IF isNew THEN Len(leads) + 1
                 ELSE CHOOSE i \in LeadsWith(phone, ts) : \A j \in LeadsWith(phone, ts) : i <= j
      business_date == get_business_date(now)
  IN \E order \in Orders(eligible_callers_for_state(ls[lead_id].state)) :
     \E t \in Later(maxNow) :
       LET r == assign_lead_result(ls[lead_id].state, NoCaller, "", business_date, order)
       IN /\ AssignAndCommit("webhook", ls, lead_id, r, business_date, t)
          /\ returned' = ReturnedAfter(phone, ts, lead_id)
          /\ UNCHANGED <<callers, caller_states>>

\* POST /api/leads/webhook, one request at a time
lead_webhook(expected, x_webhook_secret, phone, ts, state, maxAssign, maxNow) ==
  /\ Len(lead_assignments) < maxAssign
  /\ IF ~verify_webhook_secret(expected, x_webhook_secret)
     THEN /\ UNCHANGED <<callers, caller_states, leads, lead_assignments, rr_pointers,
                         caller_daily_counters, now, log, returned>>
     ELSE webhook_assign(LeadsWith(phone, ts) = {}, phone, ts, state, maxNow)

\* PATCH /api/leads/{lead_id}/reassign; caller_id is NoCaller for null
reassign_lead(lead_id, caller_id, maxAssign) ==
  /\ Len(lead_assignments) < maxAssign
  /\ IF lead_id \notin DOMAIN leads
     THEN /\ UNCHANGED <<callers, caller_states, leads, lead_assignments, rr_pointers,
                         caller_daily_counters, now, log, returned>>
     ELSE LET business_date == get_business_date(now) IN
          \E order \in Orders(eligible_callers_for_state(leads[lead_id].state)) :
          \E t \in Later(MaxNow) :
            LET r == assign_lead_result(leads[lead_id].state, caller_id, "manual_reassign",
                                        business_date, order)
            IN IF r.raised
               THEN /\ UNCHANGED <<callers, caller_states, leads, lead_assignments,
                                   rr_pointers, caller_daily_counters, now, log, returned>>
               ELSE /\ AssignAndCommit("reassign", leads, lead_id, r, business_date, t)
                    /\ UNCHANGED <<callers, caller_states, returned>>

\* the reason_override values a caller of assign_lead passes; "" for None
Overrides == {"", "manual_reassign", "escalation"}

\* assign_lead called on an existing lead and committed by its caller, as a
\* handler or a test does; a ValueError ends the transaction without a write
assign_lead(lead_id, forced_caller_id, reason_override, maxAssign) ==
  /\ Len(lead_assignments) < maxAssign
  /\ lead_id \in DOMAIN leads
  /\ LET business_date == get_business_date(now) IN
     \E order \in Orders(eligible_callers_for_state(leads[lead_id].state)) :
     \E t \in Later(MaxNow) :
       LET r == assign_lead_result(leads[lead_id].state, forced_caller_id, reason_override,
                                   business_date, order)
       IN IF r.raised
          THEN /\ UNCHANGED <<callers, caller_states, leads, lead_assignments,
                              rr_pointers, caller_daily_counters, now, log, returned>>
          ELSE /\ AssignAndCommit("assign", leads, lead_id, r, business_date, t)
               /\ UNCHANGED <<callers, caller_states, returned>>

\* --------------------------------------------------------------- caller CRUD
\* an Optional[...] payload field: {} for None, {v} for a value
Optional(S) == {{}} \cup {{v} : v \in S}
Given(opt) == CHOOSE v \in opt : TRUE

LimitInputs == (0 - 1)..MaxLimit
StateLists == {<<>>} \cup {<<a>> : a \in States} \cup {<<a, b>> : a \in States, b \in States}

\* the CallerUpdate payloads tried: nothing or one field given, or all three
UpdatePayloads ==
  {p \in [daily_limit : Optional(LimitInputs), assigned_states : Optional(StateLists),
          status : Optional({ACTIVE, PAUSED})] :
     \/ Cardinality({f \in {"l", "a", "s"} :
            \/ f = "l" /\ p.daily_limit # {}
            \/ f = "a" /\ p.assigned_states # {}
            \/ f = "s" /\ p.status # {}}) <= 1
     \/ (p.daily_limit # {} /\ p.assigned_states # {} /\ p.status # {})}

\* two CallerState rows with one primary key (caller_id, state): IntegrityError
HasDuplicates(list) == \E i, j \in DOMAIN list : i # j /\ list[i] = list[j]

Unchanged_engine == UNCHANGED <<leads, lead_assignments, rr_pointers, caller_daily_counters,
                                now, log, returned>>

\* the caller stored whatever its daily_limit
create_caller_unchecked(id, daily_limit, assigned_states, status) ==
  /\ id \notin DOMAIN callers
  /\ Unchanged_engine
  /\ IF HasDuplicates(assigned_states)
     THEN /\ UNCHANGED <<callers, caller_states>>
     ELSE /\ callers' = [c \in DOMAIN callers \cup {id} |->
                           IF c = id THEN [daily_limit |-> daily_limit, status |-> status]
                           ELSE callers[c]]
          /\ caller_states' = caller_states \cup {<<id, st>> : st \in Range(assigned_states)}

\* POST /api/callers; id is the uuid4 drawn for the new row
create_caller(id, daily_limit, assigned_states, status) ==
  /\ id \notin DOMAIN callers
  /\ Unchanged_engine
  /\ IF daily_limit < 0
     THEN /\ UNCHANGED <<callers, caller_states>>
     ELSE IF HasDuplicates(assigned_states)
     THEN /\ UNCHANGED <<callers, caller_states>>
     ELSE /\ callers' = [c \in DOMAIN callers \cup {id} |->
                           IF c = id THEN [daily_limit |-> daily_limit, status |-> status]
                           ELSE callers[c]]
          /\ caller_states' = caller_states \cup {<<id, st>> : st \in Range(assigned_states)}

\* PUT /api/callers/{caller_id}
update_caller(caller_id, daily_limit, assigned_states, status) ==
  /\ Unchanged_engine
  /\ IF caller_id \notin DOMAIN callers
     THEN /\ UNCHANGED <<callers, caller_states>>
     ELSE IF daily_limit # {} /\ Given(daily_limit) < 0
     THEN /\ UNCHANGED <<callers, caller_states>>
     ELSE IF assigned_states # {} /\ HasDuplicates(Given(assigned_states))
     THEN /\ UNCHANGED <<callers, caller_states>>
     ELSE /\ callers' = [callers EXCEPT ![caller_id] =
                           [daily_limit |-> IF daily_limit # {} THEN Given(daily_limit)
                                            ELSE @.daily_limit,
                            status |-> IF status # {} THEN Given(status) ELSE @.status]]
          /\ caller_states' =
               IF assigned_states # {}
               THEN {r \in caller_states : r[1] # caller_id}
                      \cup {<<caller_id, st>> : st \in Range(Given(assigned_states))}
               ELSE caller_states

\* PATCH /api/callers/{caller_id}/status
update_caller_status(caller_id, status) ==
  /\ Unchanged_engine
  /\ UNCHANGED caller_states
  /\ IF caller_id \notin DOMAIN callers
     THEN /\ UNCHANGED callers
     ELSE /\ callers' = [callers EXCEPT ![caller_id].status = status]

\* the caller row deleted, its CallerState rows with it (ON DELETE CASCADE)
delete_caller_row(caller_id) ==
  /\ Unchanged_engine
  /\ IF caller_id \notin DOMAIN callers
     THEN /\ UNCHANGED <<callers, caller_states>>
     ELSE /\ callers' = [c \in DOMAIN callers \ {caller_id} |-> callers[c]]
          /\ caller_states' = {r \in caller_states : r[1] # caller_id}

\* DELETE /api/callers/{caller_id}
delete_caller(caller_id) ==
  /\ Unchanged_engine
  /\ UNCHANGED caller_states
  /\ IF caller_id \notin DOMAIN callers
     THEN /\ UNCHANGED callers
     ELSE /\ callers' = [callers EXCEPT ![caller_id].status = PAUSED]

\* the clock moves between two requests
Tick ==
  /\ now < MaxNow
  /\ now' = now + 1
  /\ UNCHANGED <<callers, caller_states, leads, lead_assignments, rr_pointers,
                 caller_daily_counters, log, returned, txn, observed>>

\* the requests in flight in the concurrent specification
Procs == 1..MaxProcs
\* waited: the request's INSERT had to wait on the unique index (kept after
\* the commit until the next request of the worker)
Idle == [pc |-> "idle", phone |-> "", ts |-> 0, state |-> NoState, waited |-> FALSE]

\* no request answered yet
NoResponse ==
  [code |-> 0, error |-> "", lead_id |-> 0, assigned_caller_id |-> NoCaller,
   assignment_status |-> "", assignment_reason |-> ""]

\* a request or call that ended in an error: the HTTP status (0 outside HTTP)
\* and the exception or detail
ErrorOut(code, error) == [NoResponse EXCEPT !.code = code, !.error = error]

\* LeadOut built from the lead and the assignment a the handler holds
LeadOut(code, lead_id, a) ==
  [code |-> code, error |-> "", lead_id |-> lead_id, assigned_caller_id |-> a.caller_id,
   assignment_status |-> a.status, assignment_reason |-> a.assignment_reason]

\* ------------------------------------------------------------ specification
\* the empty database of a fresh deployment
Init ==
  /\ callers = <<>>
  /\ caller_states = {}
  /\ leads = <<>>
  /\ lead_assignments = <<>>
  /\ rr_pointers = <<>>
  /\ caller_daily_counters = <<>>
  /\ now = 0
  /\ log = <<>>
  /\ returned = <<>>
  /\ txn = [p \in Procs |-> Idle]
  /\ response = NoResponse
  /\ events = <<>>
  /\ active_connections = <<>>

Webhook ==
  \E expected \in Secrets, h \in Headers, phone \in Phones, ts \in SheetTimestamps,
     state \in LeadStates :
    lead_webhook(expected, h, phone, ts, state, MaxAssign, MaxNow) /\ UNCHANGED <<txn, observed>>

Reassign ==
  \E lead_id \in 1..MaxLeads, caller_id \in {NoCaller} \cup CallerIds :
    reassign_lead(lead_id, caller_id, MaxAssign) /\ UNCHANGED <<txn, observed>>

CreateCaller ==
  \E id \in CallerIds, daily_limit \in LimitInputs, assigned_states \in StateLists,
     status \in {ACTIVE, PAUSED} :
    create_caller(id, daily_limit, assigned_states, status) /\ UNCHANGED <<txn, observed>>

UpdateCaller ==
  \E id \in CallerIds, p \in UpdatePayloads :
    update_caller(id, p.daily_limit, p.assigned_states, p.status) /\ UNCHANGED <<txn, observed>>

UpdateCallerStatus ==
  \E id \in CallerIds, status \in {ACTIVE, PAUSED} :
    update_caller_status(id, status) /\ UNCHANGED <<txn, observed>>

DeleteCaller == \E id \in CallerIds : delete_caller(id) /\ UNCHANGED <<txn, observed>>

Next ==
  \/ Webhook
  \/ Reassign
  \/ CreateCaller
  \/ UpdateCaller
  \/ UpdateCallerStatus
  \/ DeleteCaller
  \/ Tick

Spec == Init /\ [][Next]_vars

\* ------------------------------------------- concurrent webhook submissions
\* no unique index: an INSERT never waits for another transaction
NoUniqueIndex(p, phone, ts) == FALSE

\* another open transaction holds an uncommitted Lead row with this key: an
\* INSERT of the same key waits on the unique index uq_lead_phone_ts
PendingElsewhere(p, phone, ts) ==
  \E q \in Procs \ {p} :
    txn[q].pc = "inserted" /\ txn[q].phone = phone /\ txn[q].ts = ts

\* db.add(lead); db.flush(): the row is inserted, or the INSERT waits for the
\* transaction that holds the key, or it fails on a committed row and the
\* handler rolls back and looks the lead up
InsertOutcome(p, phone, ts) ==
  IF LeadsWith(phone, ts) # {} THEN "found"
  ELSE IF PendingElsewhere(p, phone, ts) THEN "waiting"
  ELSE "inserted"

OpenTxns == {p \in Procs : txn[p].pc # "idle"}

Unchanged_db == UNCHANGED <<callers, caller_states, leads, lead_assignments, rr_pointers,
                            caller_daily_counters, now, log, returned, observed>>

\* request p enters lead_webhook and reaches the flush of its Lead
webhook_begin(p, expected, x_webhook_secret, phone, ts, state) ==
  /\ txn[p].pc = "idle"
  /\ Len(lead_assignments) + Cardinality(OpenTxns) < MaxAssign
  /\ Unchanged_db
  /\ IF ~verify_webhook_secret(expected, x_webhook_secret)
     THEN UNCHANGED txn
     ELSE txn' = [txn EXCEPT ![p] = [pc |-> InsertOutcome(p, phone, ts), phone |-> phone,
                                     ts |-> ts, state |-> state, waited |-> FALSE]]

\* the transaction the INSERT waited for has ended
webhook_resume(p) ==
  /\ txn[p].pc = "waiting"
  /\ ~PendingElsewhere(p, txn[p].phone, txn[p].ts)
  /\ Unchanged_db
  /\ txn' = [txn EXCEPT ![p].pc = InsertOutcome(p, txn[p].phone, txn[p].ts),
                        ![p].waited = TRUE]

\* assign_lead and db.commit() of request p
webhook_commit(p) ==
  /\ txn[p].pc \in {"inserted", "found"}
  /\ webhook_assign(txn[p].pc = "inserted", txn[p].phone, txn[p].ts, txn[p].state, MaxNow)
  /\ txn' = [txn EXCEPT ![p] = [Idle EXCEPT !.waited = txn[p].waited]]
  /\ UNCHANGED observed

\* request p fails or is cancelled before its commit: the session is closed
\* and the transaction rolled back (get_db)
webhook_abort(p) ==
  /\ txn[p].pc # "idle"
  /\ Unchanged_db
  /\ txn' = [txn EXCEPT ![p] = Idle]

WebhookBegin ==
  \E p \in Procs, expected \in Secrets, h \in Headers, phone \in Phones,
     ts \in SheetTimestamps, state \in LeadStates :
    webhook_begin(p, expected, h, phone, ts, state)

WebhookResume == \E p \in Procs : webhook_resume(p)

WebhookCommit == \E p \in Procs : webhook_commit(p)

WebhookAbort == \E p \in Procs : webhook_abort(p)

NextConc ==
  \/ WebhookBegin
  \/ WebhookResume
  \/ WebhookCommit
  \/ WebhookAbort
  \/ CreateCaller

SpecConc == Init /\ [][NextConc]_vars

\* ------------------------------------------ a caller population that stays
RoutingKeys == {GlobalKey} \cup {"state:" \o st : st \in States}

\* the callers tables with daily_limit drawn from limits
Populations(limits) ==
  UNION {[D -> [daily_limit : limits, status : {ACTIVE, PAUSED}]] : D \in SUBSET CallerIds}

EmptyEngine ==
  /\ leads = <<>>
  /\ lead_assignments = <<>>
  /\ caller_daily_counters = <<>>
  /\ now = 0
  /\ log = <<>>
  /\ returned = <<>>
  /\ txn = [p \in Procs |-> Idle]
  /\ response = NoResponse
  /\ events = <<>>
  /\ active_connections = <<>>

\* unlimited callers, any statuses and states, every pointer anywhere
InitRR ==
  /\ callers \in Populations({0})
  /\ caller_states \in SUBSET ((DOMAIN callers) \X States)
  /\ rr_pointers \in UNION {[K -> DOMAIN callers] : K \in SUBSET RoutingKeys}
  /\ EmptyEngine

WebhookRR ==
  \E phone \in Phones, ts \in SheetTimestamps, state \in LeadStates :
    lead_webhook(NoSecret, "absent", phone, ts, state, RRAssign, MaxNow) /\ UNCHANGED <<txn, observed>>

ReassignRR ==
  \E lead_id \in 1..MaxLeads : reassign_lead(lead_id, NoCaller, RRAssign) /\ UNCHANGED <<txn, observed>>

NextRR == WebhookRR \/ ReassignRR

SpecRR == InitRR /\ [][NextRR]_vars

\* one active caller with a daily limit, no counter yet
InitCap ==
  /\ callers \in {f \in Populations(0..CapLimit) :
                    /\ Cardinality({c \in DOMAIN f : f[c].status = ACTIVE}) = 1
                    /\ \A c \in DOMAIN f : f[c].status = ACTIVE => f[c].daily_limit > 0}
  /\ caller_states \in SUBSET ((DOMAIN callers) \X States)
  /\ rr_pointers = <<>>
  /\ EmptyEngine

WebhookCap ==
  \E phone \in Phones, ts \in SheetTimestamps, state \in LeadStates :
    lead_webhook(NoSecret, "absent", phone, ts, state, CapLimit + 1, MaxNow) /\ UNCHANGED <<txn, observed>>

NextCap == WebhookCap \/ Tick

SpecCap == InitCap /\ [][NextCap]_vars

\* ------------------------------------------------------------------ claims
Days == {Day(t) : t \in Ticks}

\* a step in which assign_lead ran to its end, and what it logged and wrote
Called == Len(log') = Len(log) + 1
NewLog == log'[Len(log')]
NewRow == lead_assignments'[Len(lead_assignments')]
AutoAssigned == Called /\ NewLog.mode = "auto" /\ NewLog.status = ASSIGNED

LastLog == log[Len(log)]
LastRow == lead_assignments[Len(lead_assignments)]

\* the assigned rows of caller c whose assigned_at falls on date d
AssignedRows(c, d) ==
  {i \in DOMAIN lead_assignments :
     /\ lead_assignments[i].status = ASSIGNED
     /\ lead_assignments[i].caller_id = c
     /\ Day(lead_assignments[i].assigned_at) = d}

\* C1: for every (caller, business date) the CallerDailyCounter value (0 for a
\* missing row) equals the number of assigned rows of that caller whose
\* assigned_at falls on that date.
C1_CounterEqualsRows ==
  \A c \in CallerIds, d \in Days :
    CounterOf(caller_daily_counters, c, d) = Cardinality(AssignedRows(c, d))

\* C2: an automatic assignment goes to a caller with daily_limit > 0 only if
\* that caller's counter for today was strictly below daily_limit before the
\* increment, so it never commits with counter > daily_limit.
C2_AutoRespectsCap ==
  [][AutoAssigned =>
       LET c == NewLog.caller
           d == NewLog.date
       IN callers[c].daily_limit > 0 =>
            /\ CounterOf(caller_daily_counters, c, d) < callers[c].daily_limit
            /\ CounterOf(caller_daily_counters', c, d) <= callers'[c].daily_limit]_vars

\* C2 witness: the last call was automatic and filled a limited caller's cap
C2_Witness ==
  /\ Len(log) > 0
  /\ LastLog.mode = "auto" /\ LastLog.status = ASSIGNED
  /\ callers[LastLog.caller].daily_limit > 0
  /\ CounterOf(caller_daily_counters, LastLog.caller, LastLog.date)
       = callers[LastLog.caller].daily_limit

\* C3: no row produced in automatic mode names a caller that was paused when
\* the assignment was made.
C3_AutoNeverPaused ==
  [][AutoAssigned =>
       /\ NewRow.caller_id \in DOMAIN callers
       /\ callers[NewRow.caller_id].status = ACTIVE]_vars

\* C3 witness: an automatic assignment was made while another caller was paused
C3_Witness ==
  /\ Len(log) > 0
  /\ LastLog.mode = "auto" /\ LastLog.status = ASSIGNED
  /\ callers[LastLog.caller].status = ACTIVE
  /\ \E c \in DOMAIN callers : callers[c].status = PAUSED /\ c < LastLog.caller

\* a step in which the webhook answered a submission it had answered before
DuplicateWebhook ==
  \E k \in DOMAIN returned : Len(returned'[k]) = Len(returned[k]) + 1

\* C5: a second webhook call with an already-seen (phone, timestamp) is a
\* no-op on state: every CallerDailyCounter is unchanged and no LeadAssignment
\* row is created.
C5_DuplicateIsNoOp ==
  [][DuplicateWebhook =>
       /\ caller_daily_counters' = caller_daily_counters
       /\ lead_assignments' = lead_assignments]_vars

\* the state of the lead the step's assign_lead call was about
NewLeadState == leads'[NewLog.lead_id].state

\* C7: an automatic assignment that finds no active caller at all gives an
\* unassigned row with caller_id null and reason unassigned_no_eligible;
\* unassigned_cap_reached is emitted only when at least one active candidate
\* existed and the cap filter removed them all.
C7_NoEligibleReason ==
  [][(Called /\ NewLog.mode = "auto") =>
       /\ eligible_callers_for_state(NewLeadState) = {} =>
            /\ NewRow.status = UNASSIGNED
            /\ NewRow.caller_id = NoCaller
            /\ NewRow.assignment_reason = "unassigned_no_eligible"
       /\ NewRow.assignment_reason = "unassigned_cap_reached" =>
            eligible_callers_for_state(NewLeadState) # {}]_vars

\* C9: when the lead has state s and an active, under-cap caller has a
\* CallerState row for s, the automatic assignment goes to a caller that has a
\* CallerState row for s and carries reason state_round_robin.
C9_StateRouting ==
  [][(Called /\ NewLog.mode = "auto") =>
       ((/\ NewLeadState # NoState
         /\ \E c \in StateCallers(NewLeadState) : UnderCap(c, NewLog.date)) =>
          /\ NewRow.status = ASSIGNED
          /\ <<NewRow.caller_id, NewLeadState>> \in caller_states
          /\ NewRow.assignment_reason = "state_round_robin")]_vars

\* C9 without the reason: the caller chosen has a CallerState row for s
C9_StateRoutingCaller ==
  [][(Called /\ NewLog.mode = "auto") =>
       ((/\ NewLeadState # NoState
         /\ \E c \in StateCallers(NewLeadState) : UnderCap(c, NewLog.date)) =>
          /\ NewRow.status = ASSIGNED
          /\ <<NewRow.caller_id, NewLeadState>> \in caller_states
          /\ (NewLog.handler = "webhook" =>
                NewRow.assignment_reason = "state_round_robin"))]_vars

\* no caller, active or paused, has a CallerState row for state s
NoCallerHas(s) == ~\E r \in caller_states : r[2] = s

\* the active callers under their cap on date d
UnderCapActive(d) == {c \in ActiveCallers : UnderCap(c, d)}

\* C10: when the lead's state is empty or no caller has a CallerState row for
\* it, the automatic assignment draws from all active callers, uses the
\* "global" pointer and carries reason global_round_robin.
C10_GlobalFallback ==
  [][(Called /\ NewLog.mode = "auto"
        /\ (NewLeadState = NoState \/ NoCallerHas(NewLeadState))) =>
       /\ (NewRow.status = ASSIGNED) = (UnderCapActive(NewLog.date) # {})
       /\ NewRow.status = ASSIGNED =>
            /\ NewRow.caller_id \in UnderCapActive(NewLog.date)
            /\ NewLog.key = GlobalKey
            /\ GlobalKey \in DOMAIN rr_pointers'
            /\ rr_pointers'[GlobalKey] = NewRow.caller_id
            /\ \A k \in DOMAIN rr_pointers \ {GlobalKey} :
                 rr_pointers'[k] = rr_pointers[k]
            /\ NewRow.assignment_reason = "global_round_robin"]_vars

\* C10 without the reason on the reassign route
C10_GlobalFallbackCaller ==
  [][(Called /\ NewLog.mode = "auto"
        /\ (NewLeadState = NoState \/ NoCallerHas(NewLeadState))) =>
       /\ (NewRow.status = ASSIGNED) = (UnderCapActive(NewLog.date) # {})
       /\ NewRow.status = ASSIGNED =>
            /\ NewRow.caller_id \in UnderCapActive(NewLog.date)
            /\ NewLog.key = GlobalKey
            /\ GlobalKey \in DOMAIN rr_pointers'
            /\ rr_pointers'[GlobalKey] = NewRow.caller_id
            /\ \A k \in DOMAIN rr_pointers \ {GlobalKey} :
                 rr_pointers'[k] = rr_pointers[k]
            /\ (NewLog.handler = "webhook" =>
                  NewRow.assignment_reason = "global_round_robin")]_vars

\* C4: two webhook calls carrying the same (phone, timestamp), one after the
\* other or concurrently, return the same lead id, and at most one Lead row
\* exists per (phone, timestamp).
C4_SameLeadId ==
  /\ \A i, j \in DOMAIN leads :
       (/\ leads[i].phone = leads[j].phone
        /\ leads[i].timestamp_from_sheet = leads[j].timestamp_from_sheet) => i = j
  /\ \A k \in DOMAIN returned :
       \A a, b \in DOMAIN returned[k] : returned[k][a] = returned[k][b]

\* C4 witness: a submission was answered twice, once by a request whose
\* INSERT waited for the other's transaction
C4_Witness ==
  /\ \E k \in DOMAIN returned : Len(returned[k]) >= 2
  /\ \E p \in Procs : txn[p].pc = "idle" /\ txn[p].waited

\* the automatic assignments made through routing key K, in order
ThroughKey(K) ==
  LET Via(e) == e.mode = "auto" /\ e.status = ASSIGNED /\ e.key = K
  IN SelectSeq(log, Via)

\* the callers the eligibility query returns for the leads routed through K
EligibleVia(K) ==
  UNION {eligible_callers_for_state(st) : st \in {x \in LeadStates : routing_key(x) = K}}

\* C6: with an unchanging set of n active callers of daily_limit 0, any k*n
\* consecutive automatic assignments through one routing key give every
\* caller exactly k assignments, whatever the pointer held at the start.
C6_EvenRotation ==
  \A K \in RoutingKeys :
    LET sub == ThroughKey(K)
        E == EligibleVia(K)
        n == Cardinality(E)
    IN (\A c \in E : callers[c].daily_limit = 0) =>
         \A a \in 1..Len(sub), k \in 1..Len(sub) :
           (n > 0 /\ a + k * n - 1 <= Len(sub)) =>
             \A c \in E : Cardinality({i \in a..(a + k * n - 1) : sub[i].caller = c}) = k

\* C6 witness: two callers, four assignments through one key, the first of
\* them to the second caller (the pointer started on the first)
C6_Witness ==
  \E K \in RoutingKeys :
    /\ Cardinality(EligibleVia(K)) = 2
    /\ Len(ThroughKey(K)) = 4
    /\ \A c \in EligibleVia(K) : c <= ThroughKey(K)[1].caller

\* C8: with a single active caller of daily_limit L > 0 and no counter for
\* today, L+1 automatic assignments on one business date give the first L to
\* that caller and make the (L+1)-th unassigned with unassigned_cap_reached.
C8_CapSequence ==
  Cardinality(ActiveCallers) = 1 =>
    LET a == CHOOSE c \in ActiveCallers : TRUE
        L == callers[a].daily_limit
    IN L > 0 =>
         \A i \in DOMAIN log :
           (\A j \in 1..i : log[j].mode = "auto" /\ log[j].date = log[1].date) =>
             /\ i <= L => /\ lead_assignments[i].status = ASSIGNED
                          /\ lead_assignments[i].caller_id = a
             /\ i = L + 1 => /\ lead_assignments[i].status = UNASSIGNED
                             /\ lead_assignments[i].caller_id = NoCaller
                             /\ lead_assignments[i].assignment_reason = "unassigned_cap_reached"

\* C8 witness: the cap of CapLimit was filled and one more lead came on the
\* same date
C8_Witness ==
  /\ Cardinality(ActiveCallers) = 1
  /\ \A c \in ActiveCallers : callers[c].daily_limit = CapLimit
  /\ Len(log) = CapLimit + 1
  /\ \A j \in DOMAIN log : log[j].date = log[1].date

\* ------------------------------------------------------- manual assignment
\* any callers, any states, no assignment yet
InitManual ==
  /\ callers \in Populations(0..MaxLimit)
  /\ caller_states \in SUBSET ((DOMAIN callers) \X States)
  /\ rr_pointers = <<>>
  /\ EmptyEngine

WebhookManual ==
  \E phone \in Phones, ts \in SheetTimestamps, state \in LeadStates :
    lead_webhook(NoSecret, "absent", phone, ts, state, MaxAssign, MaxNow)
      /\ UNCHANGED <<txn, observed>>

\* a direct call of assign_lead and what its caller gets back: the
\* assignment, or ValueError
AssignManual ==
  \E lead_id \in 1..MaxLeads, caller_id \in CallerIds, o \in Overrides :
    /\ assign_lead(lead_id, caller_id, o, MaxAssign)
    /\ response' = IF ForcedCallerError(caller_id) THEN ErrorOut(0, "ValueError")
                   ELSE LeadOut(0, lead_id, NewRow)
    /\ UNCHANGED <<txn, events, active_connections>>

NextManual == WebhookManual \/ AssignManual \/ Tick

SpecManual == InitManual /\ [][NextManual]_vars

\* C11: manual mode with an active forced caller assigns the lead to exactly
\* that caller whatever the lead's state and the caller's counter, adds one to
\* the caller's counter of today, and records manual_reassign when no override
\* is passed.
C11_ManualAssignsForced ==
  [][\A lead_id \in 1..MaxLeads, c \in CallerIds, o \in Overrides :
       (/\ c \in DOMAIN callers
        /\ callers[c].status = ACTIVE
        /\ assign_lead(lead_id, c, o, MaxAssign)) =>
         /\ Called
         /\ NewRow.lead_id = lead_id
         /\ NewRow.caller_id = c
         /\ NewRow.status = ASSIGNED
         /\ CounterOf(caller_daily_counters', c, get_business_date(now))
              = CounterOf(caller_daily_counters, c, get_business_date(now)) + 1
         /\ o = "" => NewRow.assignment_reason = "manual_reassign"]_vars

\* C11 witness: a lead of a state the forced caller does not serve was forced,
\* without override, on a caller whose counter had reached its limit
C11_Witness ==
  /\ Len(log) > 0
  /\ LastLog.handler = "assign" /\ LastLog.mode = "manual"
  /\ LastRow.assignment_reason = "manual_reassign"
  /\ leads[LastLog.lead_id].state \in States
  /\ <<LastLog.caller, leads[LastLog.lead_id].state>> \notin caller_states
  /\ callers[LastLog.caller].daily_limit > 0
  /\ CounterOf(caller_daily_counters, LastLog.caller, LastLog.date)
       > callers[LastLog.caller].daily_limit

\* C12: when the forced caller does not exist or is not active, assign_lead
\* fails with an error and changes nothing: no assignment row, no counter, no
\* pointer, and lead.unassigned as it was.
C12_InvalidForcedNoChange ==
  [][\A lead_id \in 1..MaxLeads, c \in CallerIds, o \in Overrides :
       (/\ c \notin DOMAIN callers \/ callers[c].status # ACTIVE
        /\ assign_lead(lead_id, c, o, MaxAssign)) =>
         /\ response'.error = "ValueError"
         /\ UNCHANGED <<lead_assignments, caller_daily_counters, rr_pointers, leads>>]_vars

\* C12 witness: the last call was refused for its forced caller, on a lead
\* already assigned, with a paused caller present
C12_Witness ==
  /\ response.error = "ValueError"
  /\ Len(lead_assignments) > 0
  /\ \E c \in DOMAIN callers : callers[c].status = PAUSED

\* ------------------------------------------------ requests and their answers
\* the event without its caller
AssignmentEventAnonymous(a) ==
  [lead_id |-> a.lead_id, caller_id |-> NoCaller, assignment_status |-> a.status,
   assignment_reason |-> a.assignment_reason]

\* AssignmentEventOut of the assignment a
AssignmentEventOut(a) ==
  [lead_id |-> a.lead_id, caller_id |-> a.caller_id, assignment_status |-> a.status,
   assignment_reason |-> a.assignment_reason]

\* POST /api/leads/webhook with its answer and its broadcast
lead_webhook_http(expected, x_webhook_secret, phone, ts, state, maxAssign, maxNow) ==
  /\ lead_webhook(expected, x_webhook_secret, phone, ts, state, maxAssign, maxNow)
  /\ IF ~verify_webhook_secret(expected, x_webhook_secret)
     THEN /\ response' = ErrorOut(401, "unauthorized")
          /\ UNCHANGED <<events, active_connections>>
     ELSE /\ response' = LeadOut(200, NewRow.lead_id, NewRow)
          /\ events' = Append(events, AssignmentEventOut(NewRow))
          /\ UNCHANGED active_connections

\* PATCH /api/leads/{lead_id}/reassign with its answer and its broadcast; the
\* ValueError of assign_lead is caught nowhere and ends as a 500
reassign_lead_http(lead_id, caller_id, maxAssign) ==
  /\ reassign_lead(lead_id, caller_id, maxAssign)
  /\ IF lead_id \notin DOMAIN leads
     THEN /\ response' = ErrorOut(404, "lead not found")
          /\ UNCHANGED <<events, active_connections>>
     ELSE IF ForcedCallerError(caller_id)
     THEN /\ response' = ErrorOut(500, "ValueError")
          /\ UNCHANGED <<events, active_connections>>
     ELSE /\ response' = LeadOut(200, lead_id, NewRow)
          /\ events' = Append(events, AssignmentEventOut(NewRow))
          /\ UNCHANGED active_connections

\* the assignments of a lead, as positions in lead_assignments
AssignmentsOf(lead_id) == {i \in DOMAIN lead_assignments : lead_assignments[i].lead_id = lead_id}

\* sorted(lead.assignments, key=assigned_at, reverse=True)[0]: the sort is
\* stable, so of the rows with the greatest assigned_at it is the one the
\* relationship loaded first, and the load has no ORDER BY
LatestByAssignedAt(lead_id) ==
  {i \in AssignmentsOf(lead_id) :
     \A j \in AssignmentsOf(lead_id) :
       lead_assignments[j].assigned_at <= lead_assignments[i].assigned_at}

\* GET /api/leads/{lead_id}
get_lead(lead_id) ==
  /\ UNCHANGED <<callers, caller_states, leads, lead_assignments, rr_pointers,
                 caller_daily_counters, now, log, returned, events,
                 active_connections>>
  /\ IF lead_id \notin DOMAIN leads
     THEN response' = ErrorOut(404, "lead not found")
     ELSE IF AssignmentsOf(lead_id) = {}
     THEN response' = [NoResponse EXCEPT !.code = 200, !.lead_id = lead_id]
     ELSE \E i \in LatestByAssignedAt(lead_id) :
            response' = LeadOut(200, lead_id, lead_assignments[i])

WebhookHttp ==
  \E expected \in Secrets, h \in Headers, phone \in Phones, ts \in SheetTimestamps,
     state \in LeadStates :
    lead_webhook_http(expected, h, phone, ts, state, MaxAssign, MaxNow) /\ UNCHANGED txn

ReassignHttp ==
  \E lead_id \in 1..MaxLeads, caller_id \in {NoCaller} \cup CallerIds :
    reassign_lead_http(lead_id, caller_id, MaxAssign) /\ UNCHANGED txn

GetLead == \E lead_id \in 1..MaxLeads : get_lead(lead_id) /\ UNCHANGED txn

NextHttp == WebhookHttp \/ ReassignHttp \/ GetLead \/ Tick

SpecHttp == InitManual /\ [][NextHttp]_vars

\* C13: a reassign request for an existing lead that names a missing or
\* non-active caller is answered with 400 or 422.
C13_InvalidForcedIsClientError ==
  [][\A lead_id \in DOMAIN leads, c \in CallerIds :
       (/\ c \notin DOMAIN callers \/ callers[c].status # ACTIVE
        /\ reassign_lead_http(lead_id, c, MaxAssign)) =>
         response'.code \in {400, 422}]_vars

\* C14: a reassign with caller_id null runs the automatic pipeline and a
\* supplied reason applies only in manual mode: every assigned row made
\* without a forced caller carries state_round_robin or global_round_robin,
\* and manual_reassign appears only on rows made with a forced caller.
C14_ReasonFollowsMode ==
  [][(Called /\ NewRow.status = ASSIGNED) =>
       /\ NewLog.mode = "auto" =>
            NewRow.assignment_reason \in {"state_round_robin", "global_round_robin"}
       /\ NewRow.assignment_reason = "manual_reassign" => NewLog.mode = "manual"]_vars

\* ------------------------------------- concurrent assignment transactions
\* Requests run in sessions of their own against PostgreSQL at READ COMMITTED.
\* A session's writes reach the tables at its commit; what it holds before is
\* kept in txn[p]:
\*   locked    the Caller rows its eligibility query returned FOR UPDATE
\*   counters_locked  the counter rows its cap filter returned FOR UPDATE
\*   r         what assign_lead decided
\*   count     the value counter.count holds in the session after += 1
\*   inserted  it has flushed the INSERT of the counter row (count 0)
\*   waited    its eligibility query had to wait for a row lock
\*   outcome   how the worker's last request ended (for a rollback, with the
\*             point the request had reached)
LockAssign == 3

NoResult == [raised |-> FALSE, mode |-> "", chosen |-> NoCaller, key |-> "", reason |-> "",
             status |-> ""]

Free ==
  [pc |-> "idle", route |-> "", lead |-> 0, phone |-> "", ts |-> 0, state |-> NoState,
   forced |-> NoCaller, override |-> "", date |-> 0, locked |-> <<>>, counters_locked |-> {},
   r |-> NoResult, count |-> 0, inserted |-> FALSE, waited |-> FALSE, outcome |-> ""]

Ended(p, outcome) == [Free EXCEPT !.waited = txn[p].waited, !.outcome = outcome]

Unchanged_tables ==
  UNCHANGED <<callers, caller_states, leads, lead_assignments, rr_pointers,
              caller_daily_counters, now, log, returned, observed>>

\* the open requests, and the submissions they carry
Open == {p \in Procs : txn[p].pc # "idle"}
PendingKeys == {<<txn[p].phone, txn[p].ts>> : p \in Open}

\* a webhook request whose flushed Lead is committed at once
webhook_enter_autocommit(p, phone, ts, state) ==
  /\ txn[p].pc = "idle"
  /\ Len(lead_assignments) + Cardinality(Open) < LockAssign
  /\ LeadsWith(phone, ts) = {}
  /\ <<phone, ts>> \notin PendingKeys
  /\ leads' = Append(leads, [phone |-> phone, timestamp_from_sheet |-> ts,
                             state |-> state, unassigned |-> FALSE])
  /\ UNCHANGED <<callers, caller_states, lead_assignments, rr_pointers,
                 caller_daily_counters, now, log, returned, observed>>
  /\ txn' = [txn EXCEPT ![p] = [Free EXCEPT !.pc = "started", !.route = "webhook",
                                            !.phone = phone, !.ts = ts,
                                            !.state = state, !.date = get_business_date(now)]]

\* a webhook request with a submission not seen before passes the secret
\* check and flushes its Lead; business_date is read on entry to assign_lead
webhook_enter(p, phone, ts, state) ==
  /\ txn[p].pc = "idle"
  /\ Len(lead_assignments) + Cardinality(Open) < LockAssign
  /\ LeadsWith(phone, ts) = {}
  /\ <<phone, ts>> \notin PendingKeys
  /\ Unchanged_tables
  /\ txn' = [txn EXCEPT ![p] = [Free EXCEPT !.pc = "started", !.route = "webhook",
                                            !.phone = phone, !.ts = ts,
                                            !.state = state, !.date = get_business_date(now)]]

\* a reassign request has loaded its lead
reassign_enter(p, lead_id, caller_id) ==
  /\ txn[p].pc = "idle"
  /\ Len(lead_assignments) + Cardinality(Open) < LockAssign
  /\ lead_id \in DOMAIN leads
  /\ Unchanged_tables
  /\ txn' = [txn EXCEPT ![p] = [Free EXCEPT !.pc = "started", !.route = "reassign",
                                            !.lead = lead_id, !.state = leads[lead_id].state,
                                            !.forced = caller_id, !.override = "manual_reassign",
                                            !.date = get_business_date(now)]]

\* a Caller row of cs is locked FOR UPDATE by another open transaction
RowLockedElsewhere(p, cs) ==
  \E q \in Procs \ {p} : txn[q].pc # "idle" /\ Range(txn[q].locked) \cap cs # {}

\* _eligible_callers_for_state of an automatic request: the query waits while
\* a row it selects is locked, then returns the rows locked for this session
eligible_for_update(p) ==
  /\ txn[p].pc \in {"started", "lock_wait"}
  /\ txn[p].forced = NoCaller
  /\ Unchanged_tables
  /\ LET cs == eligible_callers_for_state(txn[p].state) IN
     IF RowLockedElsewhere(p, cs)
     THEN /\ txn[p].pc = "started"
          /\ txn' = [txn EXCEPT ![p].pc = "lock_wait", ![p].waited = TRUE]
     ELSE \E order \in Orders(cs) :
            txn' = [txn EXCEPT ![p].pc = "locked", ![p].locked = order]

\* another open transaction has flushed the INSERT of counter row key
InsertedElsewhere(p, key) ==
  \E q \in Procs \ {p} :
    txn[q].pc = "chosen" /\ txn[q].inserted /\ <<txn[q].r.chosen, txn[q].date>> = key

\* db.get(CallerDailyCounter, ...) for the caller chosen in r, the INSERT of a
\* row with count 0 when there is none (it waits for an uncommitted row of the
\* same key), and counter.count += 1 in the session
counter_loaded(p, r) ==
  LET key == <<r.chosen, txn[p].date>> IN
  IF r.status # ASSIGNED
  THEN [txn[p] EXCEPT !.pc = "chosen", !.r = r]
  ELSE IF key \in DOMAIN caller_daily_counters
  THEN [txn[p] EXCEPT !.pc = "chosen", !.r = r, !.count = caller_daily_counters[key] + 1]
  ELSE IF InsertedElsewhere(p, key)
  THEN [txn[p] EXCEPT !.pc = "counter_wait", !.r = r]
  ELSE [txn[p] EXCEPT !.pc = "chosen", !.r = r, !.count = 1, !.inserted = TRUE]

\* assign_lead of an automatic request from the cap filter on
auto_choose(p) ==
  /\ txn[p].pc = "locked"
  /\ Unchanged_tables
  /\ LET r == assign_lead_result(txn[p].state, NoCaller, txn[p].override, txn[p].date,
                                 txn[p].locked)
         held == {<<c, txn[p].date>> : c \in Range(txn[p].locked)}
                   \cap DOMAIN caller_daily_counters
     IN txn' = [txn EXCEPT ![p] = [counter_loaded(p, r) EXCEPT !.counters_locked = held]]

\* assign_lead of a request with a forced caller: no row is locked
manual_choose(p) ==
  /\ txn[p].pc = "started"
  /\ txn[p].forced # NoCaller
  /\ Unchanged_tables
  /\ LET r == assign_lead_result(txn[p].state, txn[p].forced, txn[p].override, txn[p].date,
                                 <<>>)
     IN IF r.raised
        THEN txn' = [txn EXCEPT ![p] = Ended(p, "ValueError")]
        ELSE txn' = [txn EXCEPT ![p] = counter_loaded(p, r)]

\* the transaction the counter INSERT waited for has ended: unique violation
\* if it committed the row, else the INSERT goes through
counter_resume(p) ==
  /\ txn[p].pc = "counter_wait"
  /\ Unchanged_tables
  /\ LET key == <<txn[p].r.chosen, txn[p].date>> IN
     /\ ~InsertedElsewhere(p, key)
     /\ IF key \in DOMAIN caller_daily_counters
        THEN txn' = [txn EXCEPT ![p] = Ended(p, "IntegrityError")]
        ELSE txn' = [txn EXCEPT ![p].pc = "chosen", ![p].count = 1, ![p].inserted = TRUE]

\* counter row key is locked FOR UPDATE by another open transaction
CounterLockedElsewhere(p, key) ==
  \E q \in Procs \ {p} : txn[q].pc # "idle" /\ key \in txn[q].counters_locked

\* the flush at commit: UPDATE caller_daily_counters SET count = <the value
\* the session holds> for the row of the chosen caller
CounterWritten(p) ==
  LET key == <<txn[p].r.chosen, txn[p].date>> IN
  IF txn[p].r.status = ASSIGNED
  THEN [x \in DOMAIN caller_daily_counters \cup {key} |->
          IF x = key THEN txn[p].count ELSE caller_daily_counters[x]]
  ELSE caller_daily_counters

\* a rollback that leaves the flushed counter row behind
rollback_keeping_flushed(p) ==
  /\ txn[p].pc # "idle"
  /\ UNCHANGED <<callers, caller_states, leads, lead_assignments, rr_pointers, now, log,
                 returned, observed>>
  /\ caller_daily_counters' =
       IF txn[p].inserted
       THEN [x \in DOMAIN caller_daily_counters \cup {<<txn[p].r.chosen, txn[p].date>>} |->
               IF x \in DOMAIN caller_daily_counters THEN caller_daily_counters[x] ELSE 0]
       ELSE caller_daily_counters
  /\ txn' = [txn EXCEPT ![p] = Ended(p, "rolled_back:" \o txn[p].pc)]

\* an error at any statement, or a failure of the handler before db.commit():
\* get_db closes the session and the transaction is rolled back
rollback(p) ==
  /\ txn[p].pc # "idle"
  /\ Unchanged_tables
  /\ txn' = [txn EXCEPT ![p] = Ended(p, "rolled_back:" \o txn[p].pc)]

\* db.commit(): the flush of the pending rows (it waits while the counter row
\* it updates is locked) and the COMMIT, which releases the locks
commit(p) ==
  /\ txn[p].pc = "chosen"
  /\ LET r == txn[p].r
         isNew == txn[p].route = "webhook"
         ls == IF isNew
               THEN Append(leads, [phone |-> txn[p].phone, timestamp_from_sheet |-> txn[p].ts,
                                   state |-> txn[p].state, unassigned |-> FALSE])
               ELSE leads
         lead_id == IF isNew THEN Len(leads) + 1 ELSE txn[p].lead
     IN /\ (r.status = ASSIGNED /\ ~txn[p].inserted) =>
             ~CounterLockedElsewhere(p, <<r.chosen, txn[p].date>>)
        /\ leads' = IF r.status = UNASSIGNED THEN [ls EXCEPT ![lead_id].unassigned = TRUE]
                    ELSE ls
        /\ rr_pointers' = PointerAfter(r)
        /\ caller_daily_counters' = CounterWritten(p)
        /\ lead_assignments' = Append(lead_assignments, AssignmentRow(lead_id, r, now))
        /\ log' = Append(log, LogRecord(txn[p].route, lead_id, r, txn[p].date))
        /\ returned' = IF isNew THEN ReturnedAfter(txn[p].phone, txn[p].ts, lead_id)
                       ELSE returned
  /\ txn' = [txn EXCEPT ![p] = Ended(p, "committed")]
  /\ UNCHANGED <<callers, caller_states, now, observed>>

\* any callers and states, nothing assigned, no request open
InitLock ==
  /\ callers \in Populations(0..MaxLimit)
  /\ caller_states \in SUBSET ((DOMAIN callers) \X States)
  /\ rr_pointers = <<>>
  /\ leads = <<>>
  /\ lead_assignments = <<>>
  /\ caller_daily_counters = <<>>
  /\ now = 0
  /\ log = <<>>
  /\ returned = <<>>
  /\ txn = [p \in Procs |-> Free]
  /\ response = NoResponse
  /\ events = <<>>
  /\ active_connections = <<>>

WebhookEnter ==
  \E p \in Procs, phone \in Phones, ts \in SheetTimestamps, state \in LeadStates :
    webhook_enter(p, phone, ts, state)

ReassignEnter ==
  \E p \in Procs, lead_id \in 1..MaxLeads, caller_id \in {NoCaller} \cup CallerIds :
    reassign_enter(p, lead_id, caller_id)

EligibleForUpdate == \E p \in Procs : eligible_for_update(p)

AutoChoose == \E p \in Procs : auto_choose(p)

ManualChoose == \E p \in Procs : manual_choose(p)

CounterResume == \E p \in Procs : counter_resume(p)

Commit == \E p \in Procs : commit(p)

Rollback == \E p \in Procs : rollback(p)

NextLock ==
  \/ WebhookEnter
  \/ ReassignEnter
  \/ EligibleForUpdate
  \/ AutoChoose
  \/ ManualChoose
  \/ CounterResume
  \/ Commit
  \/ Rollback

SpecLock == InitLock /\ [][NextLock]_vars

\* the callers an automatic assignment on date d of a lead of state st would
\* draw from, in the committed tables
UnderCapEligible(st, d) == {c \in eligible_callers_for_state(st) : UnderCap(c, d)}

\* C15: concurrent automatic assignments through one routing key serialize on
\* the locked caller rows: each is committed with the choice round robin makes
\* from the pointer committed before it, so with two or more eligible callers
\* it goes to another caller than the one before, and the pointer ends at it.
C15_SerializedRotation ==
  [][AutoAssigned =>
       LET K == NewLog.key
           last == IF K \in DOMAIN rr_pointers THEN rr_pointers[K] ELSE NoCaller
           E == UnderCapEligible(NewLeadState, NewLog.date)
       IN /\ \A order \in Orders(E) : NewLog.caller = next_round_robin_caller(last, order)
          /\ rr_pointers'[K] = NewLog.caller
          /\ Cardinality(E) >= 2 => NewLog.caller # last]_vars

\* C15 witness: two automatic assignments through one key committed by two
\* requests, one of which had waited for the other's row locks
C15_Witness ==
  /\ \A p \in Procs : txn[p].outcome = "committed"
  /\ \E p \in Procs : txn[p].waited
  /\ Len(log) = 2
  /\ log[1].mode = "auto" /\ log[2].mode = "auto"
  /\ log[1].status = ASSIGNED /\ log[2].status = ASSIGNED
  /\ log[1].key = log[2].key
  /\ log[1].caller # log[2].caller
  /\ rr_pointers[log[2].key] = log[2].caller

\* the assignments logged for caller c under business date d
AssignedLogged(c, d) ==
  {i \in DOMAIN log : log[i].status = ASSIGNED /\ log[i].caller = c /\ log[i].date = d}

\* C16: when two assign transactions that choose the same caller run
\* concurrently and both commit, no increment is lost: the caller's counter
\* equals the number of assignments committed for it on that business date.
C16_NoLostIncrement ==
  \A c \in CallerIds, d \in Days :
    CounterOf(caller_daily_counters, c, d) = Cardinality(AssignedLogged(c, d))

\* C17: an assign call is atomic in committed state: a request that fails or
\* is rolled back before its commit leaves every table as it was, and the
\* counter increment, the pointer change and a webhook's lead row appear only
\* in the step that adds the assignment row of that lead.
C17_AtomicCommit ==
  [][/\ (\E p \in Procs : txn'[p].outcome \notin {"", "committed"} /\ txn'[p] # txn[p]) =>
          UNCHANGED <<leads, lead_assignments, rr_pointers, caller_daily_counters>>
     /\ (\/ leads' # leads
         \/ rr_pointers' # rr_pointers
         \/ caller_daily_counters' # caller_daily_counters) =>
          /\ Len(lead_assignments') = Len(lead_assignments) + 1
          /\ Len(log') = Len(log) + 1
     /\ Len(leads') > Len(leads) => NewRow.lead_id = Len(leads')
     /\ \A lead_id \in DOMAIN leads' : AssignmentsOf(lead_id)' # {}]_vars

\* C17 witness: a webhook request that had flushed its lead and a new counter
\* row and had moved the pointer in its session was rolled back, and the
\* tables hold nothing
C17_Witness ==
  /\ \E p \in Procs : txn[p].outcome = "rolled_back:chosen"
  /\ \A p \in Procs : txn[p].pc = "idle"
  /\ leads = <<>> /\ lead_assignments = <<>>
  /\ rr_pointers = <<>> /\ caller_daily_counters = <<>>
  /\ ActiveCallers # {}

\* C18: when WEBHOOK_SECRET is set and the X-Webhook-Secret header is absent
\* or different, the webhook answers 401, creates no lead, assignment, counter
\* or pointer and emits no event; when WEBHOOK_SECRET is not set, the request
\* is accepted whatever the header holds.
C18_SecretGate ==
  [][\A expected \in Secrets, h \in Headers, phone \in Phones, ts \in SheetTimestamps,
        state \in LeadStates :
       lead_webhook_http(expected, h, phone, ts, state, MaxAssign, MaxNow) =>
         /\ (expected # NoSecret /\ h # expected) =>
              /\ response'.code = 401
              /\ UNCHANGED <<leads, lead_assignments, caller_daily_counters, rr_pointers,
                             events>>
         /\ expected = NoSecret =>
              /\ response'.code = 200
              /\ Len(lead_assignments') = Len(lead_assignments) + 1]_vars

\* C18 witness: a request was refused with 401 after another had been accepted
C18_Witness ==
  /\ response.code = 401
  /\ Len(lead_assignments) > 0
  /\ Len(events) = Len(lead_assignments)

\* the row most recently created for a lead
LastCreated(rows, lead_id) ==
  LET S == {i \in DOMAIN rows : rows[i].lead_id = lead_id}
  IN rows[CHOOSE i \in S : \A j \in S : j <= i]

\* C19: the assignment rows of a lead are totally ordered by assigned_at (no
\* two share it), the latest by assigned_at is the one created last, and its
\* status and caller_id are what get_lead and the webhook and reassign
\* responses report.
C19_LatestByAssignedAt ==
  [][/\ \A i, j \in DOMAIN lead_assignments' :
          (i < j /\ lead_assignments'[i].lead_id = lead_assignments'[j].lead_id) =>
            lead_assignments'[i].assigned_at < lead_assignments'[j].assigned_at
     /\ (response' # response /\ response'.code = 200) =>
          LET a == LastCreated(lead_assignments', response'.lead_id)
          IN /\ response'.assigned_caller_id = a.caller_id
             /\ response'.assignment_status = a.status]_vars

\* C20: on a duplicate webhook submission the response mirrors the assignment
\* the lead already had before the call: assigned_caller_id, assignment_status
\* and assignment_reason are those of that assignment.
C20_DuplicateMirrorsExisting ==
  [][\A expected \in Secrets, h \in Headers, phone \in Phones, ts \in SheetTimestamps,
        state \in LeadStates :
       (/\ LeadsWith(phone, ts) # {}
        /\ verify_webhook_secret(expected, h)
        /\ lead_webhook_http(expected, h, phone, ts, state, MaxAssign, MaxNow)) =>
         LET lead_id == CHOOSE i \in LeadsWith(phone, ts) : TRUE
             a == LastCreated(lead_assignments, lead_id)
         IN /\ response'.code = 200
            /\ response'.lead_id = lead_id
            /\ response'.assigned_caller_id = a.caller_id
            /\ response'.assignment_status = a.status
            /\ response'.assignment_reason = a.assignment_reason]_vars

\* --------------------------------------------- commit, then the broadcast
\* A request of worker p as the handler runs it: the lead is flushed or loaded
\* ("open"), assign_lead and db.commit() run, the lead and the assignment are
\* refreshed ("committed", row is the assignment's place in lead_assignments),
\* and the event is handed to connection_manager.broadcast_assignment.
EmitAssign == 2

Waiting ==
  [pc |-> "idle", route |-> "", phone |-> "", ts |-> 0, state |-> NoState, lead |-> 0,
   forced |-> NoCaller, row |-> 0, outcome |-> ""]

Answered(outcome) == [Waiting EXCEPT !.outcome = outcome]

InFlight == {p \in Procs : txn[p].pc = "open"}

\* lead_webhook up to the flush of the Lead; 401 before anything is read
webhook_open(p, expected, x_webhook_secret, phone, ts, state) ==
  /\ txn[p].pc = "idle"
  /\ Len(lead_assignments) + Cardinality(InFlight) < EmitAssign
  /\ UNCHANGED <<callers, caller_states, leads, lead_assignments, rr_pointers,
                 caller_daily_counters, now, log, returned, events,
                 active_connections>>
  /\ IF ~verify_webhook_secret(expected, x_webhook_secret)
     THEN /\ response' = ErrorOut(401, "unauthorized")
          /\ txn' = [txn EXCEPT ![p] = Answered("unauthorized")]
     ELSE /\ UNCHANGED response
          /\ txn' = [txn EXCEPT ![p] = [Waiting EXCEPT !.pc = "open", !.route = "webhook",
                                                       !.phone = phone, !.ts = ts,
                                                       !.state = state]]

\* reassign_lead up to db.get(Lead, lead_id); 404 when there is none
reassign_open(p, lead_id, caller_id) ==
  /\ txn[p].pc = "idle"
  /\ Len(lead_assignments) + Cardinality(InFlight) < EmitAssign
  /\ UNCHANGED <<callers, caller_states, leads, lead_assignments, rr_pointers,
                 caller_daily_counters, now, log, returned, events,
                 active_connections>>
  /\ IF lead_id \notin DOMAIN leads
     THEN /\ response' = ErrorOut(404, "lead not found")
          /\ txn' = [txn EXCEPT ![p] = Answered("not_found")]
     ELSE /\ UNCHANGED response
          /\ txn' = [txn EXCEPT ![p] = [Waiting EXCEPT !.pc = "open", !.route = "reassign",
                                                       !.lead = lead_id, !.forced = caller_id]]

\* assign_lead, db.commit(), db.refresh(lead), db.refresh(assignment); the
\* ValueError of assign_lead leaves the handler before the commit
assign_and_commit(p) ==
  /\ txn[p].pc = "open"
  /\ UNCHANGED <<events, active_connections>>
  /\ IF txn[p].route = "webhook"
     THEN /\ lead_webhook(NoSecret, "absent", txn[p].phone, txn[p].ts, txn[p].state,
                          EmitAssign, MaxNow)
          /\ txn' = [txn EXCEPT ![p].pc = "committed", ![p].row = Len(lead_assignments')]
          /\ UNCHANGED response
     ELSE /\ reassign_lead(txn[p].lead, txn[p].forced, EmitAssign)
          /\ IF ForcedCallerError(txn[p].forced)
             THEN /\ response' = ErrorOut(500, "ValueError")
                  /\ txn' = [txn EXCEPT ![p] = Answered("ValueError")]
             ELSE /\ UNCHANGED response
                  /\ txn' = [txn EXCEPT ![p].pc = "committed",
                                        ![p].row = Len(lead_assignments')]

\* a statement of the open transaction fails: the exception leaves the
\* handler, get_db closes the session and the transaction is rolled back
storage_error(p) ==
  /\ txn[p].pc = "open"
  /\ UNCHANGED <<callers, caller_states, leads, lead_assignments, rr_pointers,
                 caller_daily_counters, now, log, returned, events,
                 active_connections>>
  /\ response' = ErrorOut(500, "storage")
  /\ txn' = [txn EXCEPT ![p] = Answered("rolled_back")]

\* await connection_manager.broadcast_assignment(AssignmentEventOut(...)) on
\* the refreshed assignment, then the LeadOut answer
broadcast_assignment(p) ==
  /\ txn[p].pc = "committed"
  /\ UNCHANGED <<callers, caller_states, leads, lead_assignments, rr_pointers,
                 caller_daily_counters, now, log, returned, active_connections>>
  /\ LET a == lead_assignments[txn[p].row] IN
     /\ events' = Append(events, AssignmentEventOut(a))
     /\ response' = LeadOut(200, a.lead_id, a)
  /\ txn' = [txn EXCEPT ![p] = Answered("broadcast")]

\* unlimited callers with any statuses and states, nothing assigned
InitEmit ==
  /\ callers \in Populations({0})
  /\ caller_states \in SUBSET ((DOMAIN callers) \X States)
  /\ rr_pointers = <<>>
  /\ leads = <<>>
  /\ lead_assignments = <<>>
  /\ caller_daily_counters = <<>>
  /\ now = 0
  /\ log = <<>>
  /\ returned = <<>>
  /\ txn = [p \in Procs |-> Waiting]
  /\ response = NoResponse
  /\ events = <<>>
  /\ active_connections = <<>>

WebhookOpen ==
  \E p \in Procs, expected \in Secrets, h \in Headers, phone \in Phones,
     ts \in SheetTimestamps, state \in LeadStates :
    webhook_open(p, expected, h, phone, ts, state)

ReassignOpen ==
  \E p \in Procs, lead_id \in 1..MaxLeads, caller_id \in {NoCaller} \cup CallerIds :
    reassign_open(p, lead_id, caller_id)

AssignCommit == \E p \in Procs : assign_and_commit(p)

StorageError == \E p \in Procs : storage_error(p)

Broadcast == \E p \in Procs : broadcast_assignment(p)

NextEmit ==
  \/ WebhookOpen
  \/ ReassignOpen
  \/ AssignCommit
  \/ StorageError
  \/ Broadcast

\* a handler that has committed runs on to its broadcast: nothing between the
\* commit and the await can be preempted
SpecEmit ==
  InitEmit /\ [][NextEmit]_vars /\ \A p \in Procs : WF_vars(broadcast_assignment(p))

C22_SoftDelete ==
  [][/\ \A id \in CallerIds :
          (id \in DOMAIN callers /\ delete_caller(id)) =>
            /\ DOMAIN callers' = DOMAIN callers
            /\ callers'[id].status = PAUSED
            /\ callers'[id].daily_limit = callers[id].daily_limit
            /\ \A c \in DOMAIN callers \ {id} : callers'[c] = callers[c]
            /\ UNCHANGED <<caller_states, caller_daily_counters, lead_assignments,
                           rr_pointers, leads>>
     /\ AutoAssigned => callers[NewRow.caller_id].status # PAUSED]_vars

\* C22 witness: a caller that had been assigned a lead is paused, its
\* assignment, counter and CallerState row are still there, the pointer still
\* names it, and the next automatic assignment of that state went elsewhere
C22_Witness ==
  /\ Len(log) = 2
  /\ log[1].mode = "auto" /\ log[1].status = ASSIGNED
  /\ log[2].mode = "auto" /\ log[2].status = ASSIGNED
  /\ log[1].key = GlobalKey /\ log[2].key # GlobalKey
  /\ callers[log[1].caller].status = PAUSED
  /\ log[2].caller # log[1].caller
  /\ lead_assignments[1].caller_id = log[1].caller
  /\ CounterOf(caller_daily_counters, log[1].caller, log[1].date) = 1
  /\ rr_pointers[GlobalKey] = log[1].caller
  /\ \E st \in States : <<log[1].caller, st>> \in caller_states

\* ------------------------------------------- caller requests and their answers
\* CallerOut, of which the model keeps the status code of the answer
CallerOut(code) == [NoResponse EXCEPT !.code = code]

\* POST /api/callers with its answer; an IntegrityError is caught nowhere
create_caller_http(id, daily_limit, assigned_states, status) ==
  /\ create_caller(id, daily_limit, assigned_states, status)
  /\ response' = IF daily_limit < 0 THEN ErrorOut(400, "daily_limit must be non-negative")
                 ELSE IF HasDuplicates(assigned_states) THEN ErrorOut(500, "IntegrityError")
                 ELSE CallerOut(201)

\* PUT /api/callers/{caller_id} with its answer
update_caller_http(caller_id, daily_limit, assigned_states, status) ==
  /\ update_caller(caller_id, daily_limit, assigned_states, status)
  /\ response' = IF caller_id \notin DOMAIN callers THEN ErrorOut(404, "caller not found")
                 ELSE IF daily_limit # {} /\ Given(daily_limit) < 0
                 THEN ErrorOut(400, "daily_limit must be non-negative")
                 ELSE IF assigned_states # {} /\ HasDuplicates(Given(assigned_states))
                 THEN ErrorOut(500, "IntegrityError")
                 ELSE CallerOut(200)

\* PATCH /api/callers/{caller_id}/status with its answer
update_caller_status_http(caller_id, status) ==
  /\ update_caller_status(caller_id, status)
  /\ response' = IF caller_id \notin DOMAIN callers THEN ErrorOut(404, "caller not found")
                 ELSE CallerOut(200)

\* DELETE /api/callers/{caller_id} with its answer
delete_caller_http(caller_id) ==
  /\ delete_caller(caller_id)
  /\ response' = IF caller_id \notin DOMAIN callers THEN ErrorOut(404, "caller not found")
                 ELSE CallerOut(204)

CreateCallerHttp ==
  \E id \in CallerIds, daily_limit \in LimitInputs, assigned_states \in StateLists,
     status \in {ACTIVE, PAUSED} :
    create_caller_http(id, daily_limit, assigned_states, status) /\ UNCHANGED <<txn, events, active_connections>>

UpdateCallerHttp ==
  \E id \in CallerIds, p \in UpdatePayloads :
    update_caller_http(id, p.daily_limit, p.assigned_states, p.status)
      /\ UNCHANGED <<txn, events, active_connections>>

UpdateCallerStatusHttp ==
  \E id \in CallerIds, status \in {ACTIVE, PAUSED} :
    update_caller_status_http(id, status) /\ UNCHANGED <<txn, events, active_connections>>

DeleteCallerHttp == \E id \in CallerIds : delete_caller_http(id) /\ UNCHANGED <<txn, events, active_connections>>

NextCallers ==
  \/ CreateCallerHttp
  \/ UpdateCallerHttp
  \/ UpdateCallerStatusHttp
  \/ DeleteCallerHttp

SpecCallers == Init /\ [][NextCallers]_vars

\* C23: creating a caller, or updating an existing one, with daily_limit < 0
\* is answered with 400 and changes no stored state, so every stored caller
\* has daily_limit >= 0 in every reachable state.
C23_NegativeLimitRejected ==
  /\ [][/\ \A id \in CallerIds, l \in LimitInputs, sts \in StateLists, st \in {ACTIVE, PAUSED} :
             (l < 0 /\ create_caller_http(id, l, sts, st)) =>
               /\ response'.code = 400
               /\ UNCHANGED <<callers, caller_states, leads, lead_assignments, rr_pointers,
                              caller_daily_counters>>
        /\ \A id \in DOMAIN callers, p \in UpdatePayloads :
             (/\ p.daily_limit # {} /\ Given(p.daily_limit) < 0
              /\ update_caller_http(id, p.daily_limit, p.assigned_states, p.status)) =>
               /\ response'.code = 400
               /\ UNCHANGED <<callers, caller_states, leads, lead_assignments, rr_pointers,
                              caller_daily_counters>>]_vars
  /\ [](\A c \in DOMAIN callers : callers[c].daily_limit >= 0)

\* C23 witness: a request was refused with 400 while a caller with a positive
\* limit is stored
C23_Witness ==
  /\ response.code = 400
  /\ \E c \in DOMAIN callers : callers[c].daily_limit > 0

\* what an automatic call of assign_lead must have done in the step: it ran
\* to its end and added one row, assigned to a stored caller or unassigned
OneRowAdded(lead_id) ==
  /\ Called
  /\ Len(lead_assignments') = Len(lead_assignments) + 1
  /\ SubSeq(lead_assignments', 1, Len(lead_assignments)) = lead_assignments
  /\ NewLog.mode = "auto"
  /\ NewRow.lead_id = lead_id
  /\ \/ NewRow.status = ASSIGNED /\ NewRow.caller_id \in DOMAIN callers
     \/ NewRow.status = UNASSIGNED /\ NewRow.caller_id = NoCaller

\* C24: in automatic mode assign_lead never raises for "nothing fit":
\* whatever the callers (none, all paused, all at their cap, mixed) and the
\* lead's state, the webhook and a reassign with caller_id null add exactly one
\* assignment row, assigned to one caller or unassigned.
C24_AutoAlwaysReturns ==
  [][/\ \A phone \in Phones, ts \in SheetTimestamps, state \in LeadStates :
          lead_webhook(NoSecret, "absent", phone, ts, state, MaxAssign, MaxNow) =>
            \E lead_id \in DOMAIN leads' : OneRowAdded(lead_id)
     /\ \A lead_id \in DOMAIN leads :
          reassign_lead(lead_id, NoCaller, MaxAssign) => OneRowAdded(lead_id)]_vars

\* C24 witness: with one caller at its cap and another paused, the last
\* automatic call ended unassigned
C24_Witness ==
  /\ Len(log) = 2
  /\ LastLog.mode = "auto" /\ LastRow.status = UNASSIGNED
  /\ \E c, d \in DOMAIN callers :
       /\ callers[c].status = ACTIVE /\ callers[c].daily_limit > 0
       /\ CounterOf(caller_daily_counters, c, LastLog.date) = callers[c].daily_limit
       /\ callers[d].status = PAUSED

\* ------------------------------------------------ the round-robin selector
MaxSelect == 4
SelectCalls == 2
SelectIds == 1..MaxSelect

\* _next_round_robin_caller called for key "global" with a non-empty eligible
\* list, in the order the query returned it: the pointer is loaded or created,
\* the caller chosen and the pointer moved to it
select_next(eligible) ==
  /\ Len(log) < SelectCalls
  /\ eligible # <<>>
  /\ LET last == IF GlobalKey \in DOMAIN rr_pointers THEN rr_pointers[GlobalKey] ELSE NoCaller
         chosen == next_round_robin_caller(last, eligible)
         r == [raised |-> FALSE, mode |-> "auto", chosen |-> chosen, key |-> GlobalKey,
               reason |-> "global_round_robin", status |-> ASSIGNED]
     IN /\ rr_pointers' = PointerAfter(r)
        /\ log' = Append(log, LogRecord("select", 0, r, get_business_date(now)))
  /\ UNCHANGED <<callers, caller_states, leads, lead_assignments, caller_daily_counters, now,
                 returned>>

\* MaxSelect unlimited callers of any status; no pointer, or one left anywhere
InitSelect ==
  /\ callers \in [SelectIds -> [daily_limit : {0}, status : {ACTIVE, PAUSED}]]
  /\ caller_states = {}
  /\ rr_pointers \in {<<>>} \cup {[k \in {GlobalKey} |-> c] : c \in SelectIds}
  /\ EmptyEngine

SelectNext ==
  \E eligible \in Orders(ActiveCallers) : select_next(eligible) /\ UNCHANGED <<txn, observed>>

PauseOrResume ==
  \E id \in SelectIds, status \in {ACTIVE, PAUSED} :
    update_caller_status(id, status) /\ UNCHANGED <<txn, observed>>

NextSelect == SelectNext \/ PauseOrResume

SpecSelect == InitSelect /\ [][NextSelect]_vars

\* the ids of S in increasing order
Ascending(S) == CHOOSE q \in Orders(S) : \A i, j \in DOMAIN q : i < j => q[i] < q[j]

\* C25: given a non-empty eligible list, the selector returns index 0 of the
\* list sorted by id when the pointer has no last value, index (i+1) mod n
\* when the pointer's last caller is at index i of the sorted list, and index 0
\* when the last caller is not in the list, whatever the order in which the
\* query returned the callers.
C25_SelectorIndex ==
  [][\A eligible \in Orders(ActiveCallers) :
       select_next(eligible) =>
         LET sorted == Ascending(ActiveCallers)
             n == Len(sorted)
             last == IF GlobalKey \in DOMAIN rr_pointers THEN rr_pointers[GlobalKey]
                     ELSE NoCaller
         IN /\ last = NoCaller => NewLog.caller = sorted[0 + 1]
            /\ \A i \in 0..(n - 1) :
                 sorted[i + 1] = last => NewLog.caller = sorted[((i + 1) % n) + 1]
            /\ (last # NoCaller /\ last \notin ActiveCallers) => NewLog.caller = sorted[0 + 1]
            /\ rr_pointers'[GlobalKey] = NewLog.caller]_vars

\* C25 witness: with three or more callers in the list the selector was at
\* the last of them and wrapped round to the first
C25_Witness ==
  /\ Len(log) = 2
  /\ Cardinality(ActiveCallers) >= 3
  /\ log[1].caller \in ActiveCallers /\ \A c \in ActiveCallers : c <= log[1].caller
  /\ \A c \in ActiveCallers : log[2].caller <= c
  /\ \E c \in DOMAIN callers : callers[c].status = PAUSED

\* C26: in automatic mode the candidate set and the routing key agree: the
\* key is "state:<s>" exactly when some active caller has a CallerState row
\* for the lead's state (the candidates are then those callers), otherwise the
\* candidates are all active callers and the key is "global"; so every
\* assignment with reason state_round_robin names a caller that has a
\* CallerState row for the lead's state.
C26_KeyMatchesCandidates ==
  [][(Called /\ NewLog.mode = "auto" /\ NewRow.status = ASSIGNED) =>
       LET s == NewLeadState
           matched == s # NoState /\ StateCallers(s) # {}
       IN /\ matched => /\ NewLog.key = "state:" \o s
                        /\ NewRow.caller_id \in StateCallers(s)
          /\ ~matched => /\ NewLog.key = GlobalKey
                         /\ NewRow.caller_id \in ActiveCallers
          /\ NewRow.assignment_reason = "state_round_robin" =>
               <<NewRow.caller_id, s>> \in caller_states]_vars

\* C27: a lead whose state has at least one active state-matched caller, all
\* of them at their daily cap, ends unassigned and is never given to a caller
\* outside that state, even when active callers under their cap exist for
\* other states or with no state.
C27_NoFallbackWhenStateCapped ==
  [][(/\ Called /\ NewLog.mode = "auto"
      /\ NewLeadState # NoState
      /\ StateCallers(NewLeadState) # {}
      /\ \A c \in StateCallers(NewLeadState) : ~UnderCap(c, NewLog.date)) =>
       /\ NewRow.status = UNASSIGNED
       /\ NewRow.caller_id = NoCaller
       /\ leads'[NewLog.lead_id].unassigned]_vars

\* C27 witness: the last lead ended unassigned while its state's only caller
\* was at its cap and another active caller, without the state, was under cap
C27_Witness ==
  /\ Len(log) > 0
  /\ LastLog.mode = "auto" /\ LastRow.status = UNASSIGNED
  /\ leads[LastLog.lead_id].state \in States
  /\ StateCallers(leads[LastLog.lead_id].state) # {}
  /\ \A c \in StateCallers(leads[LastLog.lead_id].state) : ~UnderCap(c, LastLog.date)
  /\ \E d \in ActiveCallers \ StateCallers(leads[LastLog.lead_id].state) :
       UnderCap(d, LastLog.date)

\* C28: an unassigned outcome sets lead.unassigned to true, adds exactly one
\* assignment row with caller_id null and status unassigned, and leaves every
\* CallerDailyCounter and every RoundRobinPointer unchanged: none is created
\* and none is modified.
C28_UnassignedTouchesNothing ==
  [][(Called /\ NewLog.status = UNASSIGNED) =>
       /\ leads'[NewLog.lead_id].unassigned
       /\ Len(lead_assignments') = Len(lead_assignments) + 1
       /\ SubSeq(lead_assignments', 1, Len(lead_assignments)) = lead_assignments
       /\ NewRow.lead_id = NewLog.lead_id
       /\ NewRow.caller_id = NoCaller
       /\ NewRow.status = UNASSIGNED
       /\ UNCHANGED <<caller_daily_counters, rr_pointers>>]_vars

\* C28 witness: a lead was assigned, and the next one ended unassigned with
\* the counter and the pointer of the first still as that one left them
C28_Witness ==
  /\ Len(log) = 2
  /\ log[1].status = ASSIGNED /\ log[1].mode = "auto"
  /\ log[2].status = UNASSIGNED
  /\ leads[log[2].lead_id].unassigned
  /\ lead_assignments[2].caller_id = NoCaller
  /\ DOMAIN rr_pointers = {log[1].key} /\ rr_pointers[log[1].key] = log[1].caller
  /\ DOMAIN caller_daily_counters = {<<log[1].caller, log[1].date>>}
  /\ caller_daily_counters[<<log[1].caller, log[1].date>>] = 1

\* C29: in every reachable state, every LeadAssignment row has caller_id null
\* if and only if its status is unassigned.
C29_NullCallerIffUnassigned ==
  \A i \in DOMAIN lead_assignments :
    /\ lead_assignments[i].status \in {ASSIGNED, UNASSIGNED}
    /\ (lead_assignments[i].caller_id = NoCaller) <=> (lead_assignments[i].status = UNASSIGNED)

\* C29 witness: the table holds an unassigned row next to an assigned one
C29_Witness ==
  /\ Len(lead_assignments) = 2
  /\ \E i, j \in DOMAIN lead_assignments :
       /\ lead_assignments[i].status = ASSIGNED /\ lead_assignments[i].caller_id \in CallerIds
       /\ lead_assignments[j].status = UNASSIGNED /\ lead_assignments[j].caller_id = NoCaller

\* C30: the RoundRobinPointer of key k is created by the first successful
\* automatic assignment through k, after every successful automatic
\* assignment through k its last_caller_id is the caller of that assignment,
\* and manual assignments, unassigned outcomes and assignments through other
\* keys leave the pointer of k as it was.
C30_PointerFollowsKey ==
  /\ [](\A k \in RoutingKeys \cup DOMAIN rr_pointers :
          LET sub == ThroughKey(k) IN
          IF sub = <<>> THEN k \notin DOMAIN rr_pointers
          ELSE k \in DOMAIN rr_pointers /\ rr_pointers[k] = sub[Len(sub)].caller)
  /\ [][\A k \in RoutingKeys \cup DOMAIN rr_pointers \cup DOMAIN rr_pointers' :
          IF AutoAssigned /\ NewLog.key = k
          THEN k \in DOMAIN rr_pointers' /\ rr_pointers'[k] = NewRow.caller_id
          ELSE /\ (k \in DOMAIN rr_pointers') <=> (k \in DOMAIN rr_pointers)
               /\ k \in DOMAIN rr_pointers => rr_pointers'[k] = rr_pointers[k]]_vars

\* C30 witness: the pointer of a key was created by an automatic assignment
\* and a forced assignment to another caller left it where it was
C30_Witness ==
  /\ Len(log) = 2
  /\ log[1].mode = "auto" /\ log[1].status = ASSIGNED
  /\ log[2].mode = "manual" /\ log[2].status = ASSIGNED
  /\ log[2].caller # log[1].caller
  /\ DOMAIN rr_pointers = {log[1].key}
  /\ rr_pointers[log[1].key] = log[1].caller

\* C31: assignment rows are append-only: a webhook or reassign call that
\* assigns adds exactly one row, for its lead, and no operation changes or
\* removes a row; a reassignment from caller A to caller B leaves A's row and
\* A's counter as they were, so after one automatic assignment to A and one
\* manual reassign to B the counters are A = 1 and B = 1.
C31_AppendOnly ==
  /\ [][/\ Len(lead_assignments') \in {Len(lead_assignments), Len(lead_assignments) + 1}
        /\ SubSeq(lead_assignments', 1, Len(lead_assignments)) = lead_assignments
        /\ Called => /\ Len(lead_assignments') = Len(lead_assignments) + 1
                     /\ NewRow.lead_id = NewLog.lead_id
        /\ (Called /\ NewLog.mode = "manual") =>
             \A c \in CallerIds \ {NewLog.caller}, d \in Days :
               CounterOf(caller_daily_counters', c, d) = CounterOf(caller_daily_counters, c, d)]_vars
  /\ []((/\ Len(log) = 2
         /\ log[1].mode = "auto" /\ log[1].status = ASSIGNED
         /\ log[2].mode = "manual" /\ log[2].lead_id = log[1].lead_id
         /\ log[2].caller # log[1].caller) =>
          /\ lead_assignments[1].caller_id = log[1].caller
          /\ lead_assignments[1].status = ASSIGNED
          /\ lead_assignments[2].caller_id = log[2].caller
          /\ CounterOf(caller_daily_counters, log[1].caller, log[1].date) = 1
          /\ CounterOf(caller_daily_counters, log[2].caller, log[2].date) = 1)

\* C31 witness: a lead assigned automatically to A was reassigned by hand to
\* B, and both rows are in the table
C31_Witness ==
  /\ Len(log) = 2 /\ Len(lead_assignments) = 2
  /\ log[1].mode = "auto" /\ log[1].status = ASSIGNED
  /\ log[2].mode = "manual" /\ log[2].handler = "reassign"
  /\ log[2].lead_id = log[1].lead_id
  /\ log[2].caller # log[1].caller
  /\ lead_assignments[1].lead_id = lead_assignments[2].lead_id

\* ------------------------------------- forced reassigns across a longer run
\* Webhook requests run alone; reassign requests with a forced caller stay
\* open while other requests come and go.
LostAssign == 4

\* reassign_enter with the bound on the run given
reassign_enter_within(p, lead_id, caller_id, maxAssign) ==
  /\ txn[p].pc = "idle"
  /\ Len(lead_assignments) + Cardinality(Open) < maxAssign
  /\ lead_id \in DOMAIN leads
  /\ Unchanged_tables
  /\ txn' = [txn EXCEPT ![p] = [Free EXCEPT !.pc = "started", !.route = "reassign",
                                            !.lead = lead_id, !.state = leads[lead_id].state,
                                            !.forced = caller_id, !.override = "manual_reassign",
                                            !.date = get_business_date(now)]]

\* unlimited or limited callers without states, nothing assigned
InitLost ==
  /\ callers \in Populations(0..MaxLimit)
  /\ caller_states = {}
  /\ rr_pointers = <<>>
  /\ leads = <<>>
  /\ lead_assignments = <<>>
  /\ caller_daily_counters = <<>>
  /\ now = 0
  /\ log = <<>>
  /\ returned = <<>>
  /\ txn = [p \in Procs |-> Free]
  /\ response = NoResponse
  /\ events = <<>>
  /\ active_connections = <<>>

WebhookAlone ==
  \E phone \in Phones :
    /\ Open = {}
    /\ lead_webhook(NoSecret, "absent", phone, 1, NoState, 1, MaxNow)
    /\ UNCHANGED <<txn, observed>>

ReassignForced ==
  \E p \in Procs, lead_id \in 1..MaxLeads, caller_id \in CallerIds :
    reassign_enter_within(p, lead_id, caller_id, LostAssign)

NextLost ==
  \/ WebhookAlone
  \/ ReassignForced
  \/ ManualChoose
  \/ CounterResume
  \/ Commit

SpecLost == InitLost /\ [][NextLost]_vars

\* C32: every CallerDailyCounter is monotonically non-decreasing and never
\* deleted: no webhook, reassign or caller operation lowers a counter or
\* removes a counter row.
C32_CountersNeverDecrease ==
  [][\A k \in DOMAIN caller_daily_counters :
       /\ k \in DOMAIN caller_daily_counters'
       /\ caller_daily_counters'[k] >= caller_daily_counters[k]]_vars

\* C33: an active caller with daily_limit = 0 is never removed by the cap
\* filter, whatever its counter: it is in the filtered list of every call that
\* found it eligible, and when it is the only eligible caller it receives
\* every automatic assignment of the day.
C33_UnlimitedNeverDropped ==
  [][(Called /\ NewLog.mode = "auto") =>
       LET E == eligible_callers_for_state(NewLeadState) IN
       /\ \A order \in Orders(E), c \in E :
            callers[c].daily_limit = 0 =>
              c \in Range(apply_daily_cap_filter(order, NewLog.date))
       /\ \A a \in E :
            (E = {a} /\ callers[a].daily_limit = 0) =>
              /\ NewRow.status = ASSIGNED
              /\ NewRow.caller_id = a
              /\ CounterOf(caller_daily_counters', a, NewLog.date)
                   = CounterOf(caller_daily_counters, a, NewLog.date) + 1]_vars

\* C33 witness: a single active caller of limit 0 received RRAssign
\* automatic assignments on one day
C33_Witness ==
  /\ Len(log) = RRAssign
  /\ \E a \in ActiveCallers :
       /\ ActiveCallers = {a}
       /\ callers[a].daily_limit = 0
       /\ \A i \in DOMAIN log :
            log[i].mode = "auto" /\ log[i].caller = a /\ log[i].date = log[1].date
       /\ CounterOf(caller_daily_counters, a, log[1].date) = RRAssign

\* C34: the cap is per business date: the cap filter and the counter
\* increment of one call use the date read at entry, only the counter row of
\* that date is read, and a caller capped on one date is eligible again on the
\* next, whose count starts from 0, while the rows of earlier dates stay as
\* they were.
C34_CapPerBusinessDate ==
  [][(Called /\ NewLog.mode = "auto") =>
       LET d == get_business_date(now)
           E == eligible_callers_for_state(NewLeadState)
       IN /\ NewLog.date = d
          /\ (NewRow.status = ASSIGNED) <=> (\E c \in E : UnderCap(c, d))
          /\ NewRow.status = ASSIGNED =>
               /\ UnderCap(NewRow.caller_id, d)
               /\ DOMAIN caller_daily_counters'
                    = DOMAIN caller_daily_counters \cup {<<NewRow.caller_id, d>>}
               /\ caller_daily_counters'[<<NewRow.caller_id, d>>]
                    = CounterOf(caller_daily_counters, NewRow.caller_id, d) + 1
               /\ \A k \in DOMAIN caller_daily_counters \ {<<NewRow.caller_id, d>>} :
                    caller_daily_counters'[k] = caller_daily_counters[k]
          /\ \A c \in E, d0 \in Days \ {d} :
               (/\ E = {c} /\ callers[c].daily_limit > 0
                /\ CounterOf(caller_daily_counters, c, d0) >= callers[c].daily_limit
                /\ <<c, d>> \notin DOMAIN caller_daily_counters) =>
                 /\ NewRow.caller_id = c
                 /\ caller_daily_counters'[<<c, d>>] = 1
                 /\ caller_daily_counters'[<<c, d0>>] = caller_daily_counters[<<c, d0>>]]_vars

\* C34 witness: the caller reached its cap on one date and was assigned a
\* lead on the next, with a counter row for each date
C34_Witness ==
  \E c \in ActiveCallers :
    /\ callers[c].daily_limit > 0
    /\ CounterOf(caller_daily_counters, c, 0) = callers[c].daily_limit
    /\ CounterOf(caller_daily_counters, c, 1) = 1
    /\ LastLog.date = 1 /\ LastLog.caller = c

\* C35: through any one routing key, two consecutive automatic assignments
\* never choose the same caller when the eligible list of the second holds at
\* least two callers, whatever happened to the callers, their statuses and
\* their caps in between.
C35_NeverTwiceInARow ==
  [][AutoAssigned =>
       LET prev == ThroughKey(NewLog.key)
           E == UnderCapEligible(NewLeadState, NewLog.date)
       IN (prev # <<>> /\ Cardinality(E) >= 2) =>
            NewLog.caller # prev[Len(prev)].caller]_vars

\* C35 witness: two automatic assignments through one key, the first to the
\* caller of the greater id (the other was not eligible then), the second to
\* the other once both were eligible
C35_Witness ==
  /\ Len(log) = 2
  /\ log[1].mode = "auto" /\ log[1].status = ASSIGNED
  /\ log[2].mode = "auto" /\ log[2].status = ASSIGNED
  /\ log[1].key = log[2].key
  /\ log[2].caller < log[1].caller
  /\ Cardinality(UnderCapEligible(leads[log[2].lead_id].state, log[2].date)) >= 2

\* C36: lead.unassigned is true exactly when the lead has an assignment row
\* with status unassigned: an unassigned outcome sets the flag and no later
\* automatic or manual assignment of the lead resets it.
C36_UnassignedFlag ==
  /\ [](\A i \in DOMAIN leads :
          leads[i].unassigned <=>
            \E j \in AssignmentsOf(i) : lead_assignments[j].status = UNASSIGNED)
  /\ [][\A i \in DOMAIN leads : leads[i].unassigned => leads'[i].unassigned]_vars

\* C36 witness: a lead that ended unassigned was later assigned, and its flag
\* is still set
C36_Witness ==
  /\ Len(lead_assignments) = 2
  /\ lead_assignments[1].lead_id = lead_assignments[2].lead_id
  /\ lead_assignments[1].status = UNASSIGNED
  /\ lead_assignments[2].status = ASSIGNED
  /\ leads[lead_assignments[1].lead_id].unassigned

\* C37: every committed lead created through the webhook has at least one
\* assignment row: the lead and its first assignment row are committed by one
\* step, and a webhook request that is still open or was rolled back has left
\* no lead behind.
C37_LeadHasAssignment ==
  /\ [](\A lead_id \in DOMAIN leads : AssignmentsOf(lead_id) # {})
  /\ [][Len(leads') > Len(leads) =>
          /\ Len(leads') = Len(leads) + 1
          /\ Len(lead_assignments') = Len(lead_assignments) + 1
          /\ lead_assignments'[Len(lead_assignments')].lead_id = Len(leads')]_vars

\* C37 witness: one webhook lead is committed with its row while another
\* webhook request has flushed its lead and chosen, but not committed
C37_Witness ==
  /\ Len(leads) = 1
  /\ AssignmentsOf(1) # {}
  /\ \E p \in Procs :
       /\ txn[p].pc = "chosen"
       /\ txn[p].route = "webhook"
       /\ LeadsWith(txn[p].phone, txn[p].ts) = {}

\* ---------------------------------------------------------------------------
\* Row locks taken one row at a time.  SELECT ... FOR UPDATE locks each row as
\* the scan returns it; neither query of _eligible_callers_for_state has an
\* ORDER BY, so the order is the one the plan of that statement produces.  A
\* transaction gains the field scan (the rows of its statement in that order)
\* while its eligibility query runs; locked holds the rows locked so far.
\* ---------------------------------------------------------------------------
RowAssign == 3

\* the eligibility statement of an automatic request starts: its rows in the
\* order the scan will return them
scan_for_update(p) ==
  /\ txn[p].pc = "started"
  /\ txn[p].forced = NoCaller
  /\ Unchanged_tables
  /\ \E order \in Orders(eligible_callers_for_state(txn[p].state)) :
       txn' = [txn EXCEPT ![p] = [(txn[p] @@ [scan |-> order]) EXCEPT !.pc = "scanning"]]

\* the row the statement of p is about to lock
NextRowOf(p) == txn[p].scan[Len(txn[p].locked) + 1]

\* the statement locks the next row it returns, waits for it while another
\* transaction holds it, and returns its rows when all are locked
lock_next_row(p) ==
  /\ txn[p].pc \in {"scanning", "row_wait"}
  /\ Unchanged_tables
  /\ IF Len(txn[p].locked) = Len(txn[p].scan)
     THEN txn' = [txn EXCEPT ![p].pc = "locked"]
     ELSE IF RowLockedElsewhere(p, {NextRowOf(p)})
     THEN /\ txn[p].pc = "scanning"
          /\ txn' = [txn EXCEPT ![p].pc = "row_wait", ![p].waited = TRUE]
     ELSE txn' = [txn EXCEPT ![p].pc = "scanning",
                             ![p].locked = Append(txn[p].locked, NextRowOf(p))]

\* p waits for a row lock that q holds
WaitsFor(p, q) ==
  /\ txn[p].pc = "row_wait"
  /\ txn[q].pc # "idle"
  /\ NextRowOf(p) \in Range(txn[q].locked)

\* the database finds p in a cycle of waiting transactions and aborts its
\* statement: the error leaves the handler and the transaction is rolled back
deadlock_detected(p) ==
  /\ \E q \in Procs \ {p} : WaitsFor(p, q) /\ WaitsFor(q, p)
  /\ Unchanged_tables
  /\ txn' = [txn EXCEPT ![p] = Ended(p, "DeadlockDetected")]

WebhookRows ==
  /\ Len(lead_assignments) + Cardinality(Open) < RowAssign
  /\ WebhookEnter

ReassignRows ==
  /\ Len(lead_assignments) + Cardinality(Open) < RowAssign
  /\ ReassignEnter

ScanForUpdate == \E p \in Procs : scan_for_update(p)

LockNextRow == \E p \in Procs : lock_next_row(p)

DeadlockDetected == \E p \in Procs : deadlock_detected(p)

NextRows ==
  \/ WebhookRows
  \/ ReassignRows
  \/ ScanForUpdate
  \/ LockNextRow
  \/ AutoChoose
  \/ ManualChoose
  \/ CounterResume
  \/ Commit
  \/ DeadlockDetected

SpecRows == InitLock /\ [][NextRows]_vars

\* C38: concurrent assign transactions never deadlock: there is no cycle of
\* transactions each waiting on a row lock held by another.
C38_NoLockCycle ==
  \A p, q \in Procs : p # q => ~(WaitsFor(p, q) /\ WaitsFor(q, p))

\* ---------------------------------------------------------------------------
\* The broadcaster.  active_connections is the list of ConnectionManager; each
\* websocket has a dashboard_ws coroutine that appends it after accept() and
\* removes it on WebSocketDisconnect.  txn[p] is the frame of the
\* broadcast_assignment call of handler p, suspended in send_json:
\*   i             the position of the list iterator (elements consumed)
\*   connection    the websocket the call is sending to
\*   disconnected  the websockets whose send raised, in order
\*   sent          the websockets whose send returned, in order
\*   kept          the websockets that were in the list when the call began
\*                 and have not left it, nor failed, since
\* ---------------------------------------------------------------------------
MaxSockets == 2

WebSockets == 1..MaxSockets

Quiet ==
  [pc |-> "idle", i |-> 0, connection |-> 0, disconnected |-> <<>>, sent |-> <<>>,
   kept |-> {}]

Unchanged_requests ==
  UNCHANGED <<callers, caller_states, leads, lead_assignments, rr_pointers,
              caller_daily_counters, now, log, returned, response, events>>

\* list.remove(x): the list without the first occurrence of x
Remove(list, x) ==
  LET k == CHOOSE j \in DOMAIN list : list[j] = x /\ \A h \in 1..(j - 1) : list[h] # x
  IN [j \in 1..(Len(list) - 1) |-> IF j < k THEN list[j] ELSE list[j + 1]]

\* ConnectionManager.disconnect applied to a list
Disconnected(list, websocket) ==
  IF websocket \in Range(list) THEN Remove(list, websocket) ELSE list

RECURSIVE DisconnectAll(_, _)
\* for ws in disconnected: self.disconnect(ws)
DisconnectAll(list, disconnected) ==
  IF disconnected = <<>> THEN list
  ELSE DisconnectAll(Disconnected(list, Head(disconnected)), Tail(disconnected))

\* the frames of the calls in flight, after the websockets of gone have left
\* the list
Forgetting(frames, gone) ==
  [q \in Procs |-> [frames[q] EXCEPT !.kept = @ \ gone]]

\* the for statement takes its next element: list[i] while i < len(list), and
\* the call is suspended in send_json to it; at the end of the list the
\* websockets that failed are disconnected and the call returns
Advance(frame, p) ==
  IF frame.i < Len(active_connections)
  THEN /\ txn' = [txn EXCEPT ![p] = [frame EXCEPT !.pc = "sending", !.i = @ + 1,
                                                  !.connection = active_connections[frame.i + 1]]]
       /\ UNCHANGED active_connections
  ELSE /\ active_connections' = DisconnectAll(active_connections, frame.disconnected)
       /\ txn' = Forgetting([txn EXCEPT ![p] = [frame EXCEPT !.pc = "done", !.connection = 0]],
                            Range(frame.disconnected))

\* ConnectionManager.connect: accept(), then append
connect(websocket) ==
  /\ websocket \notin Range(active_connections)
  /\ active_connections' = Append(active_connections, websocket)
  /\ UNCHANGED txn
  /\ Unchanged_requests

\* dashboard_ws on WebSocketDisconnect: ConnectionManager.disconnect
disconnect(websocket) ==
  /\ websocket \in Range(active_connections)
  /\ active_connections' = Disconnected(active_connections, websocket)
  /\ txn' = Forgetting(txn, {websocket})
  /\ Unchanged_requests

\* broadcast_assignment is called: it returns at once on an empty list, else
\* it runs to its first send_json
broadcast_enter(p) ==
  /\ txn[p].pc \in {"idle", "done"}
  /\ Unchanged_requests
  /\ IF active_connections = <<>>
     THEN /\ txn' = [txn EXCEPT ![p] = [Quiet EXCEPT !.pc = "done"]]
          /\ UNCHANGED active_connections
     ELSE Advance([Quiet EXCEPT !.kept = Range(active_connections)], p)

\* the send_json the call is suspended in returns (ok) or raises, and the call
\* runs on to its next send_json or to its end
send_json_returns(p, ok) ==
  /\ txn[p].pc = "sending"
  /\ Unchanged_requests
  /\ LET c == txn[p].connection IN
     IF ok
     THEN Advance([txn[p] EXCEPT !.sent = Append(@, c)], p)
     ELSE Advance([txn[p] EXCEPT !.disconnected = Append(@, c), !.kept = @ \ {c}], p)

InitCast ==
  /\ callers = <<>>
  /\ caller_states = {}
  /\ rr_pointers = <<>>
  /\ leads = <<>>
  /\ lead_assignments = <<>>
  /\ caller_daily_counters = <<>>
  /\ now = 0
  /\ log = <<>>
  /\ returned = <<>>
  /\ txn = [p \in Procs |-> Quiet]
  /\ response = NoResponse
  /\ events = <<>>
  /\ active_connections = <<>>

Connect == \E websocket \in WebSockets : connect(websocket)

Disconnect == \E websocket \in WebSockets : disconnect(websocket)

BroadcastEnter == \E p \in Procs : broadcast_enter(p)

SendJsonReturns == \E p \in Procs, ok \in BOOLEAN : send_json_returns(p, ok)

NextCast ==
  \/ Connect
  \/ Disconnect
  \/ BroadcastEnter
  \/ SendJsonReturns

SpecCast == InitCast /\ [][NextCast]_vars

\* how many times c occurs in the sequence s
Occurrences(s, c) == Cardinality({j \in DOMAIN s : s[j] = c})

\* C39: when a broadcast ends, every connection that was in the active list
\* for the whole of it has been sent the event exactly once, whatever
\* connected, disconnected or failed while it was suspended in a send; and
\* the connections whose send failed are no longer in the list.
C39_DeliveredOnce ==
  [][\A p \in Procs :
       (txn[p].pc = "sending" /\ txn'[p].pc = "done") =>
         /\ \A c \in txn'[p].kept : Occurrences(txn'[p].sent, c) = 1
         /\ \A c \in Range(txn'[p].disconnected) : c \notin Range(active_connections')]_vars

====
